---- MODULE Spec2Model ----
(***************************************************************************)
(* Gradient Fisherman: the expression validator, the restricted evaluator, *)
(* the result normalizer and the query orchestrator of                     *)
(* backend/agents/query_agent.py behind the /upload, /query and /session   *)
(* routes of backend/main.py, and the older pipeline of                    *)
(* backend/app/agents/query.py behind backend/app/routers.                 *)
(*                                                                         *)
(* A candidate expression is a tuple of characters.  ast_parse gives, for  *)
(* each text of the catalogue, the tree that Python's                      *)
(* ast.parse(text, mode="eval") builds for it: a node is a record          *)
(*   kind  the node class (Call, Name, Attribute, Constant, Add, Load ...) *)
(*   name  Name.id, Attribute.attr, keyword.arg, or a Constant's type      *)
(*   str   the value of a string Constant (or a SyntaxError's message)     *)
(*   num   the value of an int or bool Constant                            *)
(*   kids  the child nodes in ast.iter_fields order (what                  *)
(*         NodeVisitor.generic_visit walks)                                *)
(***************************************************************************)
EXTENDS Integers, Sequences, FiniteSets, TLC

(***************************************************************************)
(* Bounds of the model.                                                    *)
(***************************************************************************)
MaxQueries == 2
MaxUploads == 2
MaxChats == 2
MaxStoreUploads == 52
MaxStoreQueries == 1
Texts ==
  [ sum |-> <<"d", "f", "[", "'", "r", "e", "v", "e", "n", "u", "e", "'", "]", ".", "s", "u", "m", "(", ")">>,
    nope |-> <<"d", "f", "[", "'", "n", "o", "p", "e", "'", "]", ".", "s", "u", "m", "(", ")">>,
    len |-> <<"l", "e", "n", "(", "d", "f", ")">>,
    head |-> <<"d", "f", ".", "h", "e", "a", "d", "(", "2", ")">>,
    pop |-> <<"d", "f", ".", "p", "o", "p", "(", "'", "r", "e", "v", "e", "n", "u", "e", "'", ")">>,
    drop |-> <<"d", "f", ".", "d", "r", "o", "p", "(", "c", "o", "l", "u", "m", "n", "s", "=", "[", "'", "r", "e", "v", "e", "n", "u", "e", "'", "]", ",", " ", "i", "n", "p", "l", "a", "c", "e", "=", "T", "r", "u", "e", ")">>,
    none |-> <<"N", "o", "n", "e">>,
    num |-> <<"4", "2">>,
    plus |-> <<"d", "f", "[", "'", "r", "e", "v", "e", "n", "u", "e", "'", "]", ".", "s", "u", "m", "(", ")", " ", "+", " ", "1">>,
    gt |-> <<"d", "f", "[", "'", "r", "e", "v", "e", "n", "u", "e", "'", "]", ".", "s", "u", "m", "(", ")", " ", ">", " ", "2">>,
    tolist |-> <<"l", "i", "s", "t", "(", "d", "f", "[", "'", "r", "e", "v", "e", "n", "u", "e", "'", "]", ")">>,
    safe2 |-> <<"d", "f", "[", "d", "f", "[", "'", "s", "t", "a", "t", "u", "s", "'", "]", " ", "=", "=", " ", "'", "a", "c", "t", "i", "v", "e", "'", "]", ".", "g", "r", "o", "u", "p", "b", "y", "(", "'", "r", "e", "g", "i", "o", "n", "'", ")", "[", "'", "s", "a", "l", "e", "s", "'", "]", ".", "s", "u", "m", "(", ")", ".", "r", "e", "s", "e", "t", "_", "i", "n", "d", "e", "x", "(", ")">>,
    regdict |-> <<"p", "d", ".", "_", "_", "d", "i", "c", "t", "_", "_", "[", "'", "_", "_", "b", "u", "i", "l", "t", "i", "n", "s", "_", "_", "'", "]">>,
    readcsv |-> <<"p", "d", ".", "r", "e", "a", "d", "_", "c", "s", "v", "(", "'", "/", "e", "t", "c", "/", "p", "a", "s", "s", "w", "d", "'", ")">>,
    escape |-> <<"l", "i", "s", "t", "(", "p", "d", ".", "_", "_", "d", "i", "c", "t", "_", "_", "[", "'", "_", "_", "b", "u", "i", "l", "t", "i", "n", "s", "_", "_", "'", "]", "[", "'", "_", "_", "i", "m", "p", "o", "r", "t", "_", "_", "'", "]", "(", "'", "m", "a", "i", "n", "'", ")", ".", "s", "e", "s", "s", "i", "o", "n", "s", ".", "v", "a", "l", "u", "e", "s", "(", ")", ")", "[", "0", "]", "[", "'", "d", "f", "'", "]", ".", "p", "o", "p", "(", "'", "r", "e", "v", "e", "n", "u", "e", "'", ")">>,
    bases |-> <<"(", ")", ".", "_", "_", "c", "l", "a", "s", "s", "_", "_", ".", "_", "_", "b", "a", "s", "e", "s", "_", "_", "[", "0", "]", ".", "_", "_", "s", "u", "b", "c", "l", "a", "s", "s", "e", "s", "_", "_", "(", ")">>,
    dfclass |-> <<"d", "f", ".", "_", "_", "c", "l", "a", "s", "s", "_", "_", ".", "_", "_", "b", "a", "s", "e", "s", "_", "_">>,
    binclass |-> <<"(", "d", "f", "[", "'", "r", "e", "v", "e", "n", "u", "e", "'", "]", " ", "+", " ", "1", ")", ".", "_", "_", "c", "l", "a", "s", "s", "_", "_">>,
    argclass |-> <<"l", "e", "n", "(", "d", "f", ".", "_", "_", "c", "l", "a", "s", "s", "_", "_", ")">>,
    kwclass |-> <<"d", "f", ".", "h", "e", "a", "d", "(", "n", "=", "d", "f", ".", "_", "_", "c", "l", "a", "s", "s", "_", "_", ")">>,
    subclass |-> <<"d", "f", "[", "d", "f", ".", "_", "_", "c", "l", "a", "s", "s", "_", "_", "]">>,
    compclass |-> <<"[", "d", "f", ".", "_", "_", "c", "l", "a", "s", "s", "_", "_", " ", "f", "o", "r", " ", "d", "f", " ", "i", "n", " ", "d", "f", "]">>,
    importos |-> <<"i", "m", "p", "o", "r", "t", " ", "o", "s">>,
    dunderimport |-> <<"_", "_", "i", "m", "p", "o", "r", "t", "_", "_", "(", "'", "o", "s", "'", ")">>,
    evalcall |-> <<"e", "v", "a", "l", "(", "'", "1", "+", "1", "'", ")">>,
    execcall |-> <<"e", "x", "e", "c", "(", "'", "i", "m", "p", "o", "r", "t", " ", "o", "s", "'", ")">>,
    openread |-> <<"o", "p", "e", "n", "(", "'", "/", "e", "t", "c", "/", "p", "a", "s", "s", "w", "d", "'", ")", ".", "r", "e", "a", "d", "(", ")">>,
    globals |-> <<"g", "l", "o", "b", "a", "l", "s", "(", ")">>,
    locals |-> <<"l", "o", "c", "a", "l", "s", "(", ")">>,
    lambda |-> <<"l", "a", "m", "b", "d", "a", " ", "x", ":", " ", "x">>,
    walrus |-> <<"(", "x", " ", ":", "=", " ", "1", ")">>,
    empty |-> <<>>,
    multi |-> <<"x", " ", "=", " ", "1", "\n", "d", "f", "[", "'", "x", "'", "]">>,
    listcomp |-> <<"[", "x", " ", "f", "o", "r", " ", "x", " ", "i", "n", " ", "r", "a", "n", "g", "e", "(", "3", ")", "]">>,
    storeonly |-> <<"[", "l", "e", "n", "(", "d", "f", ")", " ", "f", "o", "r", " ", "x", " ", "i", "n", " ", "r", "a", "n", "g", "e", "(", "3", ")", "]">>,
    bitand |-> <<"d", "f", "[", "(", "d", "f", "[", "'", "a", "m", "o", "u", "n", "t", "'", "]", " ", ">", " ", "1", "0", "0", ")", " ", "&", " ", "(", "d", "f", "[", "'", "q", "t", "y", "'", "]", " ", "<", " ", "3", ")", "]">>,
    isnone |-> <<"d", "f", " ", "i", "s", " ", "N", "o", "n", "e">>,
    assign |-> <<"x", " ", "=", " ", "1">>,
    funcdef |-> <<"d", "e", "f", " ", "f", "(", ")", ":", " ", "r", "e", "t", "u", "r", "n", " ", "d", "f">>,
    classdef |-> <<"c", "l", "a", "s", "s", " ", "A", ":", " ", "p", "a", "s", "s">>,
    raisestmt |-> <<"r", "a", "i", "s", "e", " ", "V", "a", "l", "u", "e", "E", "r", "r", "o", "r", "(", "'", "x", "'", ")">>,
    assertstmt |-> <<"a", "s", "s", "e", "r", "t", " ", "d", "f", " ", "i", "s", " ", "n", "o", "t", " ", "N", "o", "n", "e">>,
    withstmt |-> <<"w", "i", "t", "h", " ", "o", "p", "e", "n", "(", "'", "f", "'", ")", " ", "a", "s", " ", "f", ":", " ", "p", "a", "s", "s">>,
    safe3 |-> <<"d", "f", "[", "'", "p", "r", "i", "c", "e", "'", "]", ".", "m", "e", "a", "n", "(", ")">>,
    safe5 |-> <<"d", "f", ".", "h", "e", "a", "d", "(", "1", "0", ")">>,
    safe6 |-> <<"d", "f", "[", "'", "d", "a", "t", "e", "'", "]", ".", "m", "a", "x", "(", ")">>,
    safe7 |-> <<"d", "f", "[", "d", "f", "[", "'", "a", "m", "o", "u", "n", "t", "'", "]", " ", ">", " ", "1", "0", "0", "]", "[", "'", "c", "a", "t", "e", "g", "o", "r", "y", "'", "]", ".", "v", "a", "l", "u", "e", "_", "c", "o", "u", "n", "t", "s", "(", ")", ".", "r", "e", "s", "e", "t", "_", "i", "n", "d", "e", "x", "(", ")">>,
    safe8 |-> <<"p", "d", ".", "t", "o", "_", "d", "a", "t", "e", "t", "i", "m", "e", "(", "d", "f", "[", "'", "d", "a", "t", "e", "'", "]", ")", ".", "d", "t", ".", "y", "e", "a", "r", ".", "v", "a", "l", "u", "e", "_", "c", "o", "u", "n", "t", "s", "(", ")", ".", "r", "e", "s", "e", "t", "_", "i", "n", "d", "e", "x", "(", ")">>,
    safe9 |-> <<"d", "f", ".", "g", "r", "o", "u", "p", "b", "y", "(", "'", "p", "r", "o", "d", "u", "c", "t", "'", ")", "[", "'", "q", "t", "y", "'", "]", ".", "s", "u", "m", "(", ")", ".", "s", "o", "r", "t", "_", "v", "a", "l", "u", "e", "s", "(", "a", "s", "c", "e", "n", "d", "i", "n", "g", "=", "F", "a", "l", "s", "e", ")", ".", "r", "e", "s", "e", "t", "_", "i", "n", "d", "e", "x", "(", ")">>,
    safe10 |-> <<"r", "o", "u", "n", "d", "(", "d", "f", "[", "'", "m", "a", "r", "g", "i", "n", "'", "]", ".", "m", "e", "a", "n", "(", ")", ",", " ", "2", ")">>,
    safe11 |-> <<"d", "f", "[", "[", "'", "n", "a", "m", "e", "'", ",", " ", "'", "r", "e", "v", "e", "n", "u", "e", "'", "]", "]", ".", "s", "o", "r", "t", "_", "v", "a", "l", "u", "e", "s", "(", "'", "r", "e", "v", "e", "n", "u", "e", "'", ",", " ", "a", "s", "c", "e", "n", "d", "i", "n", "g", "=", "F", "a", "l", "s", "e", ")", ".", "h", "e", "a", "d", "(", "5", ")">>,
    print |-> <<"p", "r", "i", "n", "t", "(", "d", "f", ")">>,
    mean |-> <<"d", "f", "[", "'", "r", "e", "v", "e", "n", "u", "e", "'", "]", ".", "m", "e", "a", "n", "(", ")">>,
    groupby |-> <<"d", "f", ".", "g", "r", "o", "u", "p", "b", "y", "(", "'", "r", "e", "v", "e", "n", "u", "e", "'", ")">>,
    compdf |-> <<"[", "d", "f", " ", "f", "o", "r", " ", "d", "f", " ", "i", "n", " ", "d", "f", "]">>,
    complen |-> <<"[", "l", "e", "n", " ", "f", "o", "r", " ", "l", "e", "n", " ", "i", "n", " ", "r", "a", "n", "g", "e", "(", "3", ")", "]">>,
    setcomp |-> <<"{", "x", " ", "f", "o", "r", " ", "x", " ", "i", "n", " ", "d", "f", "}">>,
    setcompdf |-> <<"{", "d", "f", " ", "f", "o", "r", " ", "d", "f", " ", "i", "n", " ", "d", "f", "}">>,
    dictcomp |-> <<"{", "x", ":", " ", "1", " ", "f", "o", "r", " ", "x", " ", "i", "n", " ", "d", "f", "}">>,
    dictcompdf |-> <<"{", "d", "f", ":", " ", "1", " ", "f", "o", "r", " ", "d", "f", " ", "i", "n", " ", "d", "f", "}">>,
    compelt |-> <<"[", "x", " ", "f", "o", "r", " ", "d", "f", " ", "i", "n", " ", "r", "a", "n", "g", "e", "(", "3", ")", "]">> ]

ast_parse(code) ==
  CASE code = Texts.sum ->
       (* "df['revenue'].sum()" *)
       [kind |-> "Expression", name |-> "", str |-> "", num |-> 0, kids |-> <<[kind |-> "Call", name |-> "", str |-> "", num |-> 0, kids |-> <<[kind |-> "Attribute", name |-> "sum", str |-> "", num |-> 0, kids |-> <<[kind |-> "Subscript", name |-> "", str |-> "", num |-> 0, kids |-> <<[kind |-> "Name", name |-> "df", str |-> "", num |-> 0, kids |-> <<[kind |-> "Load", name |-> "", str |-> "", num |-> 0, kids |-> <<>>]>>], [kind |-> "Constant", name |-> "str", str |-> "revenue", num |-> 0, kids |-> <<>>], [kind |-> "Load", name |-> "", str |-> "", num |-> 0, kids |-> <<>>]>>], [kind |-> "Load", name |-> "", str |-> "", num |-> 0, kids |-> <<>>]>>]>>]>>]
    [] code = Texts.nope ->
       (* "df['nope'].sum()" *)
       [kind |-> "Expression", name |-> "", str |-> "", num |-> 0, kids |-> <<[kind |-> "Call", name |-> "", str |-> "", num |-> 0, kids |-> <<[kind |-> "Attribute", name |-> "sum", str |-> "", num |-> 0, kids |-> <<[kind |-> "Subscript", name |-> "", str |-> "", num |-> 0, kids |-> <<[kind |-> "Name", name |-> "df", str |-> "", num |-> 0, kids |-> <<[kind |-> "Load", name |-> "", str |-> "", num |-> 0, kids |-> <<>>]>>], [kind |-> "Constant", name |-> "str", str |-> "nope", num |-> 0, kids |-> <<>>], [kind |-> "Load", name |-> "", str |-> "", num |-> 0, kids |-> <<>>]>>], [kind |-> "Load", name |-> "", str |-> "", num |-> 0, kids |-> <<>>]>>]>>]>>]
    [] code = Texts.len ->
       (* 'len(df)' *)
       [kind |-> "Expression", name |-> "", str |-> "", num |-> 0, kids |-> <<[kind |-> "Call", name |-> "", str |-> "", num |-> 0, kids |-> <<[kind |-> "Name", name |-> "len", str |-> "", num |-> 0, kids |-> <<[kind |-> "Load", name |-> "", str |-> "", num |-> 0, kids |-> <<>>]>>], [kind |-> "Name", name |-> "df", str |-> "", num |-> 0, kids |-> <<[kind |-> "Load", name |-> "", str |-> "", num |-> 0, kids |-> <<>>]>>]>>]>>]
    [] code = Texts.head ->
       (* 'df.head(2)' *)
       [kind |-> "Expression", name |-> "", str |-> "", num |-> 0, kids |-> <<[kind |-> "Call", name |-> "", str |-> "", num |-> 0, kids |-> <<[kind |-> "Attribute", name |-> "head", str |-> "", num |-> 0, kids |-> <<[kind |-> "Name", name |-> "df", str |-> "", num |-> 0, kids |-> <<[kind |-> "Load", name |-> "", str |-> "", num |-> 0, kids |-> <<>>]>>], [kind |-> "Load", name |-> "", str |-> "", num |-> 0, kids |-> <<>>]>>], [kind |-> "Constant", name |-> "int", str |-> "", num |-> 2, kids |-> <<>>]>>]>>]
    [] code = Texts.pop ->
       (* "df.pop('revenue')" *)
       [kind |-> "Expression", name |-> "", str |-> "", num |-> 0, kids |-> <<[kind |-> "Call", name |-> "", str |-> "", num |-> 0, kids |-> <<[kind |-> "Attribute", name |-> "pop", str |-> "", num |-> 0, kids |-> <<[kind |-> "Name", name |-> "df", str |-> "", num |-> 0, kids |-> <<[kind |-> "Load", name |-> "", str |-> "", num |-> 0, kids |-> <<>>]>>], [kind |-> "Load", name |-> "", str |-> "", num |-> 0, kids |-> <<>>]>>], [kind |-> "Constant", name |-> "str", str |-> "revenue", num |-> 0, kids |-> <<>>]>>]>>]
    [] code = Texts.drop ->
       (* "df.drop(columns=['revenue'], inplace=True)" *)
       [kind |-> "Expression", name |-> "", str |-> "", num |-> 0, kids |-> <<[kind |-> "Call", name |-> "", str |-> "", num |-> 0, kids |-> <<[kind |-> "Attribute", name |-> "drop", str |-> "", num |-> 0, kids |-> <<[kind |-> "Name", name |-> "df", str |-> "", num |-> 0, kids |-> <<[kind |-> "Load", name |-> "", str |-> "", num |-> 0, kids |-> <<>>]>>], [kind |-> "Load", name |-> "", str |-> "", num |-> 0, kids |-> <<>>]>>], [kind |-> "keyword", name |-> "columns", str |-> "", num |-> 0, kids |-> <<[kind |-> "List", name |-> "", str |-> "", num |-> 0, kids |-> <<[kind |-> "Constant", name |-> "str", str |-> "revenue", num |-> 0, kids |-> <<>>], [kind |-> "Load", name |-> "", str |-> "", num |-> 0, kids |-> <<>>]>>]>>], [kind |-> "keyword", name |-> "inplace", str |-> "", num |-> 0, kids |-> <<[kind |-> "Constant", name |-> "bool", str |-> "", num |-> 1, kids |-> <<>>]>>]>>]>>]
    [] code = Texts.none ->
       (* 'None' *)
       [kind |-> "Expression", name |-> "", str |-> "", num |-> 0, kids |-> <<[kind |-> "Constant", name |-> "NoneType", str |-> "", num |-> 0, kids |-> <<>>]>>]
    [] code = Texts.num ->
       (* '42' *)
       [kind |-> "Expression", name |-> "", str |-> "", num |-> 0, kids |-> <<[kind |-> "Constant", name |-> "int", str |-> "", num |-> 42, kids |-> <<>>]>>]
    [] code = Texts.plus ->
       (* "df['revenue'].sum() + 1" *)
       [kind |-> "Expression", name |-> "", str |-> "", num |-> 0, kids |-> <<[kind |-> "BinOp", name |-> "", str |-> "", num |-> 0, kids |-> <<[kind |-> "Call", name |-> "", str |-> "", num |-> 0, kids |-> <<[kind |-> "Attribute", name |-> "sum", str |-> "", num |-> 0, kids |-> <<[kind |-> "Subscript", name |-> "", str |-> "", num |-> 0, kids |-> <<[kind |-> "Name", name |-> "df", str |-> "", num |-> 0, kids |-> <<[kind |-> "Load", name |-> "", str |-> "", num |-> 0, kids |-> <<>>]>>], [kind |-> "Constant", name |-> "str", str |-> "revenue", num |-> 0, kids |-> <<>>], [kind |-> "Load", name |-> "", str |-> "", num |-> 0, kids |-> <<>>]>>], [kind |-> "Load", name |-> "", str |-> "", num |-> 0, kids |-> <<>>]>>]>>], [kind |-> "Add", name |-> "", str |-> "", num |-> 0, kids |-> <<>>], [kind |-> "Constant", name |-> "int", str |-> "", num |-> 1, kids |-> <<>>]>>]>>]
    [] code = Texts.gt ->
       (* "df['revenue'].sum() > 2" *)
       [kind |-> "Expression", name |-> "", str |-> "", num |-> 0, kids |-> <<[kind |-> "Compare", name |-> "", str |-> "", num |-> 0, kids |-> <<[kind |-> "Call", name |-> "", str |-> "", num |-> 0, kids |-> <<[kind |-> "Attribute", name |-> "sum", str |-> "", num |-> 0, kids |-> <<[kind |-> "Subscript", name |-> "", str |-> "", num |-> 0, kids |-> <<[kind |-> "Name", name |-> "df", str |-> "", num |-> 0, kids |-> <<[kind |-> "Load", name |-> "", str |-> "", num |-> 0, kids |-> <<>>]>>], [kind |-> "Constant", name |-> "str", str |-> "revenue", num |-> 0, kids |-> <<>>], [kind |-> "Load", name |-> "", str |-> "", num |-> 0, kids |-> <<>>]>>], [kind |-> "Load", name |-> "", str |-> "", num |-> 0, kids |-> <<>>]>>]>>], [kind |-> "Gt", name |-> "", str |-> "", num |-> 0, kids |-> <<>>], [kind |-> "Constant", name |-> "int", str |-> "", num |-> 2, kids |-> <<>>]>>]>>]
    [] code = Texts.tolist ->
       (* "list(df['revenue'])" *)
       [kind |-> "Expression", name |-> "", str |-> "", num |-> 0, kids |-> <<[kind |-> "Call", name |-> "", str |-> "", num |-> 0, kids |-> <<[kind |-> "Name", name |-> "list", str |-> "", num |-> 0, kids |-> <<[kind |-> "Load", name |-> "", str |-> "", num |-> 0, kids |-> <<>>]>>], [kind |-> "Subscript", name |-> "", str |-> "", num |-> 0, kids |-> <<[kind |-> "Name", name |-> "df", str |-> "", num |-> 0, kids |-> <<[kind |-> "Load", name |-> "", str |-> "", num |-> 0, kids |-> <<>>]>>], [kind |-> "Constant", name |-> "str", str |-> "revenue", num |-> 0, kids |-> <<>>], [kind |-> "Load", name |-> "", str |-> "", num |-> 0, kids |-> <<>>]>>]>>]>>]
    [] code = Texts.safe2 ->
       (* "df[df['status'] == 'active'].groupby('region')['sales'].sum().reset_index()" *)
       [kind |-> "Expression", name |-> "", str |-> "", num |-> 0, kids |-> <<[kind |-> "Call", name |-> "", str |-> "", num |-> 0, kids |-> <<[kind |-> "Attribute", name |-> "reset_index", str |-> "", num |-> 0, kids |-> <<[kind |-> "Call", name |-> "", str |-> "", num |-> 0, kids |-> <<[kind |-> "Attribute", name |-> "sum", str |-> "", num |-> 0, kids |-> <<[kind |-> "Subscript", name |-> "", str |-> "", num |-> 0, kids |-> <<[kind |-> "Call", name |-> "", str |-> "", num |-> 0, kids |-> <<[kind |-> "Attribute", name |-> "groupby", str |-> "", num |-> 0, kids |-> <<[kind |-> "Subscript", name |-> "", str |-> "", num |-> 0, kids |-> <<[kind |-> "Name", name |-> "df", str |-> "", num |-> 0, kids |-> <<[kind |-> "Load", name |-> "", str |-> "", num |-> 0, kids |-> <<>>]>>], [kind |-> "Compare", name |-> "", str |-> "", num |-> 0, kids |-> <<[kind |-> "Subscript", name |-> "", str |-> "", num |-> 0, kids |-> <<[kind |-> "Name", name |-> "df", str |-> "", num |-> 0, kids |-> <<[kind |-> "Load", name |-> "", str |-> "", num |-> 0, kids |-> <<>>]>>], [kind |-> "Constant", name |-> "str", str |-> "status", num |-> 0, kids |-> <<>>], [kind |-> "Load", name |-> "", str |-> "", num |-> 0, kids |-> <<>>]>>], [kind |-> "Eq", name |-> "", str |-> "", num |-> 0, kids |-> <<>>], [kind |-> "Constant", name |-> "str", str |-> "active", num |-> 0, kids |-> <<>>]>>], [kind |-> "Load", name |-> "", str |-> "", num |-> 0, kids |-> <<>>]>>], [kind |-> "Load", name |-> "", str |-> "", num |-> 0, kids |-> <<>>]>>], [kind |-> "Constant", name |-> "str", str |-> "region", num |-> 0, kids |-> <<>>]>>], [kind |-> "Constant", name |-> "str", str |-> "sales", num |-> 0, kids |-> <<>>], [kind |-> "Load", name |-> "", str |-> "", num |-> 0, kids |-> <<>>]>>], [kind |-> "Load", name |-> "", str |-> "", num |-> 0, kids |-> <<>>]>>]>>], [kind |-> "Load", name |-> "", str |-> "", num |-> 0, kids |-> <<>>]>>]>>]>>]
    [] code = Texts.regdict ->
       (* "pd.__dict__['__builtins__']" *)
       [kind |-> "Expression", name |-> "", str |-> "", num |-> 0, kids |-> <<[kind |-> "Subscript", name |-> "", str |-> "", num |-> 0, kids |-> <<[kind |-> "Attribute", name |-> "__dict__", str |-> "", num |-> 0, kids |-> <<[kind |-> "Name", name |-> "pd", str |-> "", num |-> 0, kids |-> <<[kind |-> "Load", name |-> "", str |-> "", num |-> 0, kids |-> <<>>]>>], [kind |-> "Load", name |-> "", str |-> "", num |-> 0, kids |-> <<>>]>>], [kind |-> "Constant", name |-> "str", str |-> "__builtins__", num |-> 0, kids |-> <<>>], [kind |-> "Load", name |-> "", str |-> "", num |-> 0, kids |-> <<>>]>>]>>]
    [] code = Texts.readcsv ->
       (* "pd.read_csv('/etc/passwd')" *)
       [kind |-> "Expression", name |-> "", str |-> "", num |-> 0, kids |-> <<[kind |-> "Call", name |-> "", str |-> "", num |-> 0, kids |-> <<[kind |-> "Attribute", name |-> "read_csv", str |-> "", num |-> 0, kids |-> <<[kind |-> "Name", name |-> "pd", str |-> "", num |-> 0, kids |-> <<[kind |-> "Load", name |-> "", str |-> "", num |-> 0, kids |-> <<>>]>>], [kind |-> "Load", name |-> "", str |-> "", num |-> 0, kids |-> <<>>]>>], [kind |-> "Constant", name |-> "str", str |-> "/etc/passwd", num |-> 0, kids |-> <<>>]>>]>>]
    [] code = Texts.escape ->
       (* "list(pd.__dict__['__builtins__']['__import__']('main').sessions.values())[0]['df'].pop('revenue')" *)
       [kind |-> "Expression", name |-> "", str |-> "", num |-> 0, kids |-> <<[kind |-> "Call", name |-> "", str |-> "", num |-> 0, kids |-> <<[kind |-> "Attribute", name |-> "pop", str |-> "", num |-> 0, kids |-> <<[kind |-> "Subscript", name |-> "", str |-> "", num |-> 0, kids |-> <<[kind |-> "Subscript", name |-> "", str |-> "", num |-> 0, kids |-> <<[kind |-> "Call", name |-> "", str |-> "", num |-> 0, kids |-> <<[kind |-> "Name", name |-> "list", str |-> "", num |-> 0, kids |-> <<[kind |-> "Load", name |-> "", str |-> "", num |-> 0, kids |-> <<>>]>>], [kind |-> "Call", name |-> "", str |-> "", num |-> 0, kids |-> <<[kind |-> "Attribute", name |-> "values", str |-> "", num |-> 0, kids |-> <<[kind |-> "Attribute", name |-> "sessions", str |-> "", num |-> 0, kids |-> <<[kind |-> "Call", name |-> "", str |-> "", num |-> 0, kids |-> <<[kind |-> "Subscript", name |-> "", str |-> "", num |-> 0, kids |-> <<[kind |-> "Subscript", name |-> "", str |-> "", num |-> 0, kids |-> <<[kind |-> "Attribute", name |-> "__dict__", str |-> "", num |-> 0, kids |-> <<[kind |-> "Name", name |-> "pd", str |-> "", num |-> 0, kids |-> <<[kind |-> "Load", name |-> "", str |-> "", num |-> 0, kids |-> <<>>]>>], [kind |-> "Load", name |-> "", str |-> "", num |-> 0, kids |-> <<>>]>>], [kind |-> "Constant", name |-> "str", str |-> "__builtins__", num |-> 0, kids |-> <<>>], [kind |-> "Load", name |-> "", str |-> "", num |-> 0, kids |-> <<>>]>>], [kind |-> "Constant", name |-> "str", str |-> "__import__", num |-> 0, kids |-> <<>>], [kind |-> "Load", name |-> "", str |-> "", num |-> 0, kids |-> <<>>]>>], [kind |-> "Constant", name |-> "str", str |-> "main", num |-> 0, kids |-> <<>>]>>], [kind |-> "Load", name |-> "", str |-> "", num |-> 0, kids |-> <<>>]>>], [kind |-> "Load", name |-> "", str |-> "", num |-> 0, kids |-> <<>>]>>]>>]>>], [kind |-> "Constant", name |-> "int", str |-> "", num |-> 0, kids |-> <<>>], [kind |-> "Load", name |-> "", str |-> "", num |-> 0, kids |-> <<>>]>>], [kind |-> "Constant", name |-> "str", str |-> "df", num |-> 0, kids |-> <<>>], [kind |-> "Load", name |-> "", str |-> "", num |-> 0, kids |-> <<>>]>>], [kind |-> "Load", name |-> "", str |-> "", num |-> 0, kids |-> <<>>]>>], [kind |-> "Constant", name |-> "str", str |-> "revenue", num |-> 0, kids |-> <<>>]>>]>>]
    [] code = Texts.bases ->
       (* '().__class__.__bases__[0].__subclasses__()' *)
       [kind |-> "Expression", name |-> "", str |-> "", num |-> 0, kids |-> <<[kind |-> "Call", name |-> "", str |-> "", num |-> 0, kids |-> <<[kind |-> "Attribute", name |-> "__subclasses__", str |-> "", num |-> 0, kids |-> <<[kind |-> "Subscript", name |-> "", str |-> "", num |-> 0, kids |-> <<[kind |-> "Attribute", name |-> "__bases__", str |-> "", num |-> 0, kids |-> <<[kind |-> "Attribute", name |-> "__class__", str |-> "", num |-> 0, kids |-> <<[kind |-> "Tuple", name |-> "", str |-> "", num |-> 0, kids |-> <<[kind |-> "Load", name |-> "", str |-> "", num |-> 0, kids |-> <<>>]>>], [kind |-> "Load", name |-> "", str |-> "", num |-> 0, kids |-> <<>>]>>], [kind |-> "Load", name |-> "", str |-> "", num |-> 0, kids |-> <<>>]>>], [kind |-> "Constant", name |-> "int", str |-> "", num |-> 0, kids |-> <<>>], [kind |-> "Load", name |-> "", str |-> "", num |-> 0, kids |-> <<>>]>>], [kind |-> "Load", name |-> "", str |-> "", num |-> 0, kids |-> <<>>]>>]>>]>>]
    [] code = Texts.dfclass ->
       (* 'df.__class__.__bases__' *)
       [kind |-> "Expression", name |-> "", str |-> "", num |-> 0, kids |-> <<[kind |-> "Attribute", name |-> "__bases__", str |-> "", num |-> 0, kids |-> <<[kind |-> "Attribute", name |-> "__class__", str |-> "", num |-> 0, kids |-> <<[kind |-> "Name", name |-> "df", str |-> "", num |-> 0, kids |-> <<[kind |-> "Load", name |-> "", str |-> "", num |-> 0, kids |-> <<>>]>>], [kind |-> "Load", name |-> "", str |-> "", num |-> 0, kids |-> <<>>]>>], [kind |-> "Load", name |-> "", str |-> "", num |-> 0, kids |-> <<>>]>>]>>]
    [] code = Texts.binclass ->
       (* "(df['revenue'] + 1).__class__" *)
       [kind |-> "Expression", name |-> "", str |-> "", num |-> 0, kids |-> <<[kind |-> "Attribute", name |-> "__class__", str |-> "", num |-> 0, kids |-> <<[kind |-> "BinOp", name |-> "", str |-> "", num |-> 0, kids |-> <<[kind |-> "Subscript", name |-> "", str |-> "", num |-> 0, kids |-> <<[kind |-> "Name", name |-> "df", str |-> "", num |-> 0, kids |-> <<[kind |-> "Load", name |-> "", str |-> "", num |-> 0, kids |-> <<>>]>>], [kind |-> "Constant", name |-> "str", str |-> "revenue", num |-> 0, kids |-> <<>>], [kind |-> "Load", name |-> "", str |-> "", num |-> 0, kids |-> <<>>]>>], [kind |-> "Add", name |-> "", str |-> "", num |-> 0, kids |-> <<>>], [kind |-> "Constant", name |-> "int", str |-> "", num |-> 1, kids |-> <<>>]>>], [kind |-> "Load", name |-> "", str |-> "", num |-> 0, kids |-> <<>>]>>]>>]
    [] code = Texts.argclass ->
       (* 'len(df.__class__)' *)
       [kind |-> "Expression", name |-> "", str |-> "", num |-> 0, kids |-> <<[kind |-> "Call", name |-> "", str |-> "", num |-> 0, kids |-> <<[kind |-> "Name", name |-> "len", str |-> "", num |-> 0, kids |-> <<[kind |-> "Load", name |-> "", str |-> "", num |-> 0, kids |-> <<>>]>>], [kind |-> "Attribute", name |-> "__class__", str |-> "", num |-> 0, kids |-> <<[kind |-> "Name", name |-> "df", str |-> "", num |-> 0, kids |-> <<[kind |-> "Load", name |-> "", str |-> "", num |-> 0, kids |-> <<>>]>>], [kind |-> "Load", name |-> "", str |-> "", num |-> 0, kids |-> <<>>]>>]>>]>>]
    [] code = Texts.kwclass ->
       (* 'df.head(n=df.__class__)' *)
       [kind |-> "Expression", name |-> "", str |-> "", num |-> 0, kids |-> <<[kind |-> "Call", name |-> "", str |-> "", num |-> 0, kids |-> <<[kind |-> "Attribute", name |-> "head", str |-> "", num |-> 0, kids |-> <<[kind |-> "Name", name |-> "df", str |-> "", num |-> 0, kids |-> <<[kind |-> "Load", name |-> "", str |-> "", num |-> 0, kids |-> <<>>]>>], [kind |-> "Load", name |-> "", str |-> "", num |-> 0, kids |-> <<>>]>>], [kind |-> "keyword", name |-> "n", str |-> "", num |-> 0, kids |-> <<[kind |-> "Attribute", name |-> "__class__", str |-> "", num |-> 0, kids |-> <<[kind |-> "Name", name |-> "df", str |-> "", num |-> 0, kids |-> <<[kind |-> "Load", name |-> "", str |-> "", num |-> 0, kids |-> <<>>]>>], [kind |-> "Load", name |-> "", str |-> "", num |-> 0, kids |-> <<>>]>>]>>]>>]>>]
    [] code = Texts.subclass ->
       (* 'df[df.__class__]' *)
       [kind |-> "Expression", name |-> "", str |-> "", num |-> 0, kids |-> <<[kind |-> "Subscript", name |-> "", str |-> "", num |-> 0, kids |-> <<[kind |-> "Name", name |-> "df", str |-> "", num |-> 0, kids |-> <<[kind |-> "Load", name |-> "", str |-> "", num |-> 0, kids |-> <<>>]>>], [kind |-> "Attribute", name |-> "__class__", str |-> "", num |-> 0, kids |-> <<[kind |-> "Name", name |-> "df", str |-> "", num |-> 0, kids |-> <<[kind |-> "Load", name |-> "", str |-> "", num |-> 0, kids |-> <<>>]>>], [kind |-> "Load", name |-> "", str |-> "", num |-> 0, kids |-> <<>>]>>], [kind |-> "Load", name |-> "", str |-> "", num |-> 0, kids |-> <<>>]>>]>>]
    [] code = Texts.compclass ->
       (* '[df.__class__ for df in df]' *)
       [kind |-> "Expression", name |-> "", str |-> "", num |-> 0, kids |-> <<[kind |-> "ListComp", name |-> "", str |-> "", num |-> 0, kids |-> <<[kind |-> "Attribute", name |-> "__class__", str |-> "", num |-> 0, kids |-> <<[kind |-> "Name", name |-> "df", str |-> "", num |-> 0, kids |-> <<[kind |-> "Load", name |-> "", str |-> "", num |-> 0, kids |-> <<>>]>>], [kind |-> "Load", name |-> "", str |-> "", num |-> 0, kids |-> <<>>]>>], [kind |-> "comprehension", name |-> "", str |-> "", num |-> 0, kids |-> <<[kind |-> "Name", name |-> "df", str |-> "", num |-> 0, kids |-> <<[kind |-> "Store", name |-> "", str |-> "", num |-> 0, kids |-> <<>>]>>], [kind |-> "Name", name |-> "df", str |-> "", num |-> 0, kids |-> <<[kind |-> "Load", name |-> "", str |-> "", num |-> 0, kids |-> <<>>]>>]>>]>>]>>]
    [] code = Texts.importos ->
       (* 'import os' *)
       [kind |-> "SyntaxError", name |-> "", str |-> "invalid syntax (<unknown>, line 1)", num |-> 0, kids |-> <<>>]
    [] code = Texts.dunderimport ->
       (* "__import__('os')" *)
       [kind |-> "Expression", name |-> "", str |-> "", num |-> 0, kids |-> <<[kind |-> "Call", name |-> "", str |-> "", num |-> 0, kids |-> <<[kind |-> "Name", name |-> "__import__", str |-> "", num |-> 0, kids |-> <<[kind |-> "Load", name |-> "", str |-> "", num |-> 0, kids |-> <<>>]>>], [kind |-> "Constant", name |-> "str", str |-> "os", num |-> 0, kids |-> <<>>]>>]>>]
    [] code = Texts.evalcall ->
       (* "eval('1+1')" *)
       [kind |-> "Expression", name |-> "", str |-> "", num |-> 0, kids |-> <<[kind |-> "Call", name |-> "", str |-> "", num |-> 0, kids |-> <<[kind |-> "Name", name |-> "eval", str |-> "", num |-> 0, kids |-> <<[kind |-> "Load", name |-> "", str |-> "", num |-> 0, kids |-> <<>>]>>], [kind |-> "Constant", name |-> "str", str |-> "1+1", num |-> 0, kids |-> <<>>]>>]>>]
    [] code = Texts.execcall ->
       (* "exec('import os')" *)
       [kind |-> "Expression", name |-> "", str |-> "", num |-> 0, kids |-> <<[kind |-> "Call", name |-> "", str |-> "", num |-> 0, kids |-> <<[kind |-> "Name", name |-> "exec", str |-> "", num |-> 0, kids |-> <<[kind |-> "Load", name |-> "", str |-> "", num |-> 0, kids |-> <<>>]>>], [kind |-> "Constant", name |-> "str", str |-> "import os", num |-> 0, kids |-> <<>>]>>]>>]
    [] code = Texts.openread ->
       (* "open('/etc/passwd').read()" *)
       [kind |-> "Expression", name |-> "", str |-> "", num |-> 0, kids |-> <<[kind |-> "Call", name |-> "", str |-> "", num |-> 0, kids |-> <<[kind |-> "Attribute", name |-> "read", str |-> "", num |-> 0, kids |-> <<[kind |-> "Call", name |-> "", str |-> "", num |-> 0, kids |-> <<[kind |-> "Name", name |-> "open", str |-> "", num |-> 0, kids |-> <<[kind |-> "Load", name |-> "", str |-> "", num |-> 0, kids |-> <<>>]>>], [kind |-> "Constant", name |-> "str", str |-> "/etc/passwd", num |-> 0, kids |-> <<>>]>>], [kind |-> "Load", name |-> "", str |-> "", num |-> 0, kids |-> <<>>]>>]>>]>>]
    [] code = Texts.globals ->
       (* 'globals()' *)
       [kind |-> "Expression", name |-> "", str |-> "", num |-> 0, kids |-> <<[kind |-> "Call", name |-> "", str |-> "", num |-> 0, kids |-> <<[kind |-> "Name", name |-> "globals", str |-> "", num |-> 0, kids |-> <<[kind |-> "Load", name |-> "", str |-> "", num |-> 0, kids |-> <<>>]>>]>>]>>]
    [] code = Texts.locals ->
       (* 'locals()' *)
       [kind |-> "Expression", name |-> "", str |-> "", num |-> 0, kids |-> <<[kind |-> "Call", name |-> "", str |-> "", num |-> 0, kids |-> <<[kind |-> "Name", name |-> "locals", str |-> "", num |-> 0, kids |-> <<[kind |-> "Load", name |-> "", str |-> "", num |-> 0, kids |-> <<>>]>>]>>]>>]
    [] code = Texts.lambda ->
       (* 'lambda x: x' *)
       [kind |-> "Expression", name |-> "", str |-> "", num |-> 0, kids |-> <<[kind |-> "Lambda", name |-> "", str |-> "", num |-> 0, kids |-> <<[kind |-> "arguments", name |-> "", str |-> "", num |-> 0, kids |-> <<[kind |-> "arg", name |-> "x", str |-> "", num |-> 0, kids |-> <<>>]>>], [kind |-> "Name", name |-> "x", str |-> "", num |-> 0, kids |-> <<[kind |-> "Load", name |-> "", str |-> "", num |-> 0, kids |-> <<>>]>>]>>]>>]
    [] code = Texts.walrus ->
       (* '(x := 1)' *)
       [kind |-> "Expression", name |-> "", str |-> "", num |-> 0, kids |-> <<[kind |-> "NamedExpr", name |-> "", str |-> "", num |-> 0, kids |-> <<[kind |-> "Name", name |-> "x", str |-> "", num |-> 0, kids |-> <<[kind |-> "Store", name |-> "", str |-> "", num |-> 0, kids |-> <<>>]>>], [kind |-> "Constant", name |-> "int", str |-> "", num |-> 1, kids |-> <<>>]>>]>>]
    [] code = Texts.empty ->
       (* '' *)
       [kind |-> "SyntaxError", name |-> "", str |-> "invalid syntax (<unknown>, line 0)", num |-> 0, kids |-> <<>>]
    [] code = Texts.multi ->
       (* "x = 1\ndf['x']" *)
       [kind |-> "SyntaxError", name |-> "", str |-> "invalid syntax (<unknown>, line 1)", num |-> 0, kids |-> <<>>]
    [] code = Texts.listcomp ->
       (* '[x for x in range(3)]' *)
       [kind |-> "Expression", name |-> "", str |-> "", num |-> 0, kids |-> <<[kind |-> "ListComp", name |-> "", str |-> "", num |-> 0, kids |-> <<[kind |-> "Name", name |-> "x", str |-> "", num |-> 0, kids |-> <<[kind |-> "Load", name |-> "", str |-> "", num |-> 0, kids |-> <<>>]>>], [kind |-> "comprehension", name |-> "", str |-> "", num |-> 0, kids |-> <<[kind |-> "Name", name |-> "x", str |-> "", num |-> 0, kids |-> <<[kind |-> "Store", name |-> "", str |-> "", num |-> 0, kids |-> <<>>]>>], [kind |-> "Call", name |-> "", str |-> "", num |-> 0, kids |-> <<[kind |-> "Name", name |-> "range", str |-> "", num |-> 0, kids |-> <<[kind |-> "Load", name |-> "", str |-> "", num |-> 0, kids |-> <<>>]>>], [kind |-> "Constant", name |-> "int", str |-> "", num |-> 3, kids |-> <<>>]>>]>>]>>]>>]
    [] code = Texts.storeonly ->
       (* '[len(df) for x in range(3)]' *)
       [kind |-> "Expression", name |-> "", str |-> "", num |-> 0, kids |-> <<[kind |-> "ListComp", name |-> "", str |-> "", num |-> 0, kids |-> <<[kind |-> "Call", name |-> "", str |-> "", num |-> 0, kids |-> <<[kind |-> "Name", name |-> "len", str |-> "", num |-> 0, kids |-> <<[kind |-> "Load", name |-> "", str |-> "", num |-> 0, kids |-> <<>>]>>], [kind |-> "Name", name |-> "df", str |-> "", num |-> 0, kids |-> <<[kind |-> "Load", name |-> "", str |-> "", num |-> 0, kids |-> <<>>]>>]>>], [kind |-> "comprehension", name |-> "", str |-> "", num |-> 0, kids |-> <<[kind |-> "Name", name |-> "x", str |-> "", num |-> 0, kids |-> <<[kind |-> "Store", name |-> "", str |-> "", num |-> 0, kids |-> <<>>]>>], [kind |-> "Call", name |-> "", str |-> "", num |-> 0, kids |-> <<[kind |-> "Name", name |-> "range", str |-> "", num |-> 0, kids |-> <<[kind |-> "Load", name |-> "", str |-> "", num |-> 0, kids |-> <<>>]>>], [kind |-> "Constant", name |-> "int", str |-> "", num |-> 3, kids |-> <<>>]>>]>>]>>]>>]
    [] code = Texts.bitand ->
       (* "df[(df['amount'] > 100) & (df['qty'] < 3)]" *)
       [kind |-> "Expression", name |-> "", str |-> "", num |-> 0, kids |-> <<[kind |-> "Subscript", name |-> "", str |-> "", num |-> 0, kids |-> <<[kind |-> "Name", name |-> "df", str |-> "", num |-> 0, kids |-> <<[kind |-> "Load", name |-> "", str |-> "", num |-> 0, kids |-> <<>>]>>], [kind |-> "BinOp", name |-> "", str |-> "", num |-> 0, kids |-> <<[kind |-> "Compare", name |-> "", str |-> "", num |-> 0, kids |-> <<[kind |-> "Subscript", name |-> "", str |-> "", num |-> 0, kids |-> <<[kind |-> "Name", name |-> "df", str |-> "", num |-> 0, kids |-> <<[kind |-> "Load", name |-> "", str |-> "", num |-> 0, kids |-> <<>>]>>], [kind |-> "Constant", name |-> "str", str |-> "amount", num |-> 0, kids |-> <<>>], [kind |-> "Load", name |-> "", str |-> "", num |-> 0, kids |-> <<>>]>>], [kind |-> "Gt", name |-> "", str |-> "", num |-> 0, kids |-> <<>>], [kind |-> "Constant", name |-> "int", str |-> "", num |-> 100, kids |-> <<>>]>>], [kind |-> "BitAnd", name |-> "", str |-> "", num |-> 0, kids |-> <<>>], [kind |-> "Compare", name |-> "", str |-> "", num |-> 0, kids |-> <<[kind |-> "Subscript", name |-> "", str |-> "", num |-> 0, kids |-> <<[kind |-> "Name", name |-> "df", str |-> "", num |-> 0, kids |-> <<[kind |-> "Load", name |-> "", str |-> "", num |-> 0, kids |-> <<>>]>>], [kind |-> "Constant", name |-> "str", str |-> "qty", num |-> 0, kids |-> <<>>], [kind |-> "Load", name |-> "", str |-> "", num |-> 0, kids |-> <<>>]>>], [kind |-> "Lt", name |-> "", str |-> "", num |-> 0, kids |-> <<>>], [kind |-> "Constant", name |-> "int", str |-> "", num |-> 3, kids |-> <<>>]>>]>>], [kind |-> "Load", name |-> "", str |-> "", num |-> 0, kids |-> <<>>]>>]>>]
    [] code = Texts.isnone ->
       (* 'df is None' *)
       [kind |-> "Expression", name |-> "", str |-> "", num |-> 0, kids |-> <<[kind |-> "Compare", name |-> "", str |-> "", num |-> 0, kids |-> <<[kind |-> "Name", name |-> "df", str |-> "", num |-> 0, kids |-> <<[kind |-> "Load", name |-> "", str |-> "", num |-> 0, kids |-> <<>>]>>], [kind |-> "Is", name |-> "", str |-> "", num |-> 0, kids |-> <<>>], [kind |-> "Constant", name |-> "NoneType", str |-> "", num |-> 0, kids |-> <<>>]>>]>>]
    [] code = Texts.assign ->
       (* 'x = 1' *)
       [kind |-> "SyntaxError", name |-> "", str |-> "invalid syntax (<unknown>, line 1)", num |-> 0, kids |-> <<>>]
    [] code = Texts.funcdef ->
       (* 'def f(): return df' *)
       [kind |-> "SyntaxError", name |-> "", str |-> "invalid syntax (<unknown>, line 1)", num |-> 0, kids |-> <<>>]
    [] code = Texts.classdef ->
       (* 'class A: pass' *)
       [kind |-> "SyntaxError", name |-> "", str |-> "invalid syntax (<unknown>, line 1)", num |-> 0, kids |-> <<>>]
    [] code = Texts.raisestmt ->
       (* "raise ValueError('x')" *)
       [kind |-> "SyntaxError", name |-> "", str |-> "invalid syntax (<unknown>, line 1)", num |-> 0, kids |-> <<>>]
    [] code = Texts.assertstmt ->
       (* 'assert df is not None' *)
       [kind |-> "SyntaxError", name |-> "", str |-> "invalid syntax (<unknown>, line 1)", num |-> 0, kids |-> <<>>]
    [] code = Texts.withstmt ->
       (* "with open('f') as f: pass" *)
       [kind |-> "SyntaxError", name |-> "", str |-> "invalid syntax (<unknown>, line 1)", num |-> 0, kids |-> <<>>]
    [] code = Texts.safe3 ->
       (* "df['price'].mean()" *)
       [kind |-> "Expression", name |-> "", str |-> "", num |-> 0, kids |-> <<[kind |-> "Call", name |-> "", str |-> "", num |-> 0, kids |-> <<[kind |-> "Attribute", name |-> "mean", str |-> "", num |-> 0, kids |-> <<[kind |-> "Subscript", name |-> "", str |-> "", num |-> 0, kids |-> <<[kind |-> "Name", name |-> "df", str |-> "", num |-> 0, kids |-> <<[kind |-> "Load", name |-> "", str |-> "", num |-> 0, kids |-> <<>>]>>], [kind |-> "Constant", name |-> "str", str |-> "price", num |-> 0, kids |-> <<>>], [kind |-> "Load", name |-> "", str |-> "", num |-> 0, kids |-> <<>>]>>], [kind |-> "Load", name |-> "", str |-> "", num |-> 0, kids |-> <<>>]>>]>>]>>]
    [] code = Texts.safe5 ->
       (* 'df.head(10)' *)
       [kind |-> "Expression", name |-> "", str |-> "", num |-> 0, kids |-> <<[kind |-> "Call", name |-> "", str |-> "", num |-> 0, kids |-> <<[kind |-> "Attribute", name |-> "head", str |-> "", num |-> 0, kids |-> <<[kind |-> "Name", name |-> "df", str |-> "", num |-> 0, kids |-> <<[kind |-> "Load", name |-> "", str |-> "", num |-> 0, kids |-> <<>>]>>], [kind |-> "Load", name |-> "", str |-> "", num |-> 0, kids |-> <<>>]>>], [kind |-> "Constant", name |-> "int", str |-> "", num |-> 10, kids |-> <<>>]>>]>>]
    [] code = Texts.safe6 ->
       (* "df['date'].max()" *)
       [kind |-> "Expression", name |-> "", str |-> "", num |-> 0, kids |-> <<[kind |-> "Call", name |-> "", str |-> "", num |-> 0, kids |-> <<[kind |-> "Attribute", name |-> "max", str |-> "", num |-> 0, kids |-> <<[kind |-> "Subscript", name |-> "", str |-> "", num |-> 0, kids |-> <<[kind |-> "Name", name |-> "df", str |-> "", num |-> 0, kids |-> <<[kind |-> "Load", name |-> "", str |-> "", num |-> 0, kids |-> <<>>]>>], [kind |-> "Constant", name |-> "str", str |-> "date", num |-> 0, kids |-> <<>>], [kind |-> "Load", name |-> "", str |-> "", num |-> 0, kids |-> <<>>]>>], [kind |-> "Load", name |-> "", str |-> "", num |-> 0, kids |-> <<>>]>>]>>]>>]
    [] code = Texts.safe7 ->
       (* "df[df['amount'] > 100]['category'].value_counts().reset_index()" *)
       [kind |-> "Expression", name |-> "", str |-> "", num |-> 0, kids |-> <<[kind |-> "Call", name |-> "", str |-> "", num |-> 0, kids |-> <<[kind |-> "Attribute", name |-> "reset_index", str |-> "", num |-> 0, kids |-> <<[kind |-> "Call", name |-> "", str |-> "", num |-> 0, kids |-> <<[kind |-> "Attribute", name |-> "value_counts", str |-> "", num |-> 0, kids |-> <<[kind |-> "Subscript", name |-> "", str |-> "", num |-> 0, kids |-> <<[kind |-> "Subscript", name |-> "", str |-> "", num |-> 0, kids |-> <<[kind |-> "Name", name |-> "df", str |-> "", num |-> 0, kids |-> <<[kind |-> "Load", name |-> "", str |-> "", num |-> 0, kids |-> <<>>]>>], [kind |-> "Compare", name |-> "", str |-> "", num |-> 0, kids |-> <<[kind |-> "Subscript", name |-> "", str |-> "", num |-> 0, kids |-> <<[kind |-> "Name", name |-> "df", str |-> "", num |-> 0, kids |-> <<[kind |-> "Load", name |-> "", str |-> "", num |-> 0, kids |-> <<>>]>>], [kind |-> "Constant", name |-> "str", str |-> "amount", num |-> 0, kids |-> <<>>], [kind |-> "Load", name |-> "", str |-> "", num |-> 0, kids |-> <<>>]>>], [kind |-> "Gt", name |-> "", str |-> "", num |-> 0, kids |-> <<>>], [kind |-> "Constant", name |-> "int", str |-> "", num |-> 100, kids |-> <<>>]>>], [kind |-> "Load", name |-> "", str |-> "", num |-> 0, kids |-> <<>>]>>], [kind |-> "Constant", name |-> "str", str |-> "category", num |-> 0, kids |-> <<>>], [kind |-> "Load", name |-> "", str |-> "", num |-> 0, kids |-> <<>>]>>], [kind |-> "Load", name |-> "", str |-> "", num |-> 0, kids |-> <<>>]>>]>>], [kind |-> "Load", name |-> "", str |-> "", num |-> 0, kids |-> <<>>]>>]>>]>>]
    [] code = Texts.safe8 ->
       (* "pd.to_datetime(df['date']).dt.year.value_counts().reset_index()" *)
       [kind |-> "Expression", name |-> "", str |-> "", num |-> 0, kids |-> <<[kind |-> "Call", name |-> "", str |-> "", num |-> 0, kids |-> <<[kind |-> "Attribute", name |-> "reset_index", str |-> "", num |-> 0, kids |-> <<[kind |-> "Call", name |-> "", str |-> "", num |-> 0, kids |-> <<[kind |-> "Attribute", name |-> "value_counts", str |-> "", num |-> 0, kids |-> <<[kind |-> "Attribute", name |-> "year", str |-> "", num |-> 0, kids |-> <<[kind |-> "Attribute", name |-> "dt", str |-> "", num |-> 0, kids |-> <<[kind |-> "Call", name |-> "", str |-> "", num |-> 0, kids |-> <<[kind |-> "Attribute", name |-> "to_datetime", str |-> "", num |-> 0, kids |-> <<[kind |-> "Name", name |-> "pd", str |-> "", num |-> 0, kids |-> <<[kind |-> "Load", name |-> "", str |-> "", num |-> 0, kids |-> <<>>]>>], [kind |-> "Load", name |-> "", str |-> "", num |-> 0, kids |-> <<>>]>>], [kind |-> "Subscript", name |-> "", str |-> "", num |-> 0, kids |-> <<[kind |-> "Name", name |-> "df", str |-> "", num |-> 0, kids |-> <<[kind |-> "Load", name |-> "", str |-> "", num |-> 0, kids |-> <<>>]>>], [kind |-> "Constant", name |-> "str", str |-> "date", num |-> 0, kids |-> <<>>], [kind |-> "Load", name |-> "", str |-> "", num |-> 0, kids |-> <<>>]>>]>>], [kind |-> "Load", name |-> "", str |-> "", num |-> 0, kids |-> <<>>]>>], [kind |-> "Load", name |-> "", str |-> "", num |-> 0, kids |-> <<>>]>>], [kind |-> "Load", name |-> "", str |-> "", num |-> 0, kids |-> <<>>]>>]>>], [kind |-> "Load", name |-> "", str |-> "", num |-> 0, kids |-> <<>>]>>]>>]>>]
    [] code = Texts.safe9 ->
       (* "df.groupby('product')['qty'].sum().sort_values(ascending=False).reset_index()" *)
       [kind |-> "Expression", name |-> "", str |-> "", num |-> 0, kids |-> <<[kind |-> "Call", name |-> "", str |-> "", num |-> 0, kids |-> <<[kind |-> "Attribute", name |-> "reset_index", str |-> "", num |-> 0, kids |-> <<[kind |-> "Call", name |-> "", str |-> "", num |-> 0, kids |-> <<[kind |-> "Attribute", name |-> "sort_values", str |-> "", num |-> 0, kids |-> <<[kind |-> "Call", name |-> "", str |-> "", num |-> 0, kids |-> <<[kind |-> "Attribute", name |-> "sum", str |-> "", num |-> 0, kids |-> <<[kind |-> "Subscript", name |-> "", str |-> "", num |-> 0, kids |-> <<[kind |-> "Call", name |-> "", str |-> "", num |-> 0, kids |-> <<[kind |-> "Attribute", name |-> "groupby", str |-> "", num |-> 0, kids |-> <<[kind |-> "Name", name |-> "df", str |-> "", num |-> 0, kids |-> <<[kind |-> "Load", name |-> "", str |-> "", num |-> 0, kids |-> <<>>]>>], [kind |-> "Load", name |-> "", str |-> "", num |-> 0, kids |-> <<>>]>>], [kind |-> "Constant", name |-> "str", str |-> "product", num |-> 0, kids |-> <<>>]>>], [kind |-> "Constant", name |-> "str", str |-> "qty", num |-> 0, kids |-> <<>>], [kind |-> "Load", name |-> "", str |-> "", num |-> 0, kids |-> <<>>]>>], [kind |-> "Load", name |-> "", str |-> "", num |-> 0, kids |-> <<>>]>>]>>], [kind |-> "Load", name |-> "", str |-> "", num |-> 0, kids |-> <<>>]>>], [kind |-> "keyword", name |-> "ascending", str |-> "", num |-> 0, kids |-> <<[kind |-> "Constant", name |-> "bool", str |-> "", num |-> 0, kids |-> <<>>]>>]>>], [kind |-> "Load", name |-> "", str |-> "", num |-> 0, kids |-> <<>>]>>]>>]>>]
    [] code = Texts.safe10 ->
       (* "round(df['margin'].mean(), 2)" *)
       [kind |-> "Expression", name |-> "", str |-> "", num |-> 0, kids |-> <<[kind |-> "Call", name |-> "", str |-> "", num |-> 0, kids |-> <<[kind |-> "Name", name |-> "round", str |-> "", num |-> 0, kids |-> <<[kind |-> "Load", name |-> "", str |-> "", num |-> 0, kids |-> <<>>]>>], [kind |-> "Call", name |-> "", str |-> "", num |-> 0, kids |-> <<[kind |-> "Attribute", name |-> "mean", str |-> "", num |-> 0, kids |-> <<[kind |-> "Subscript", name |-> "", str |-> "", num |-> 0, kids |-> <<[kind |-> "Name", name |-> "df", str |-> "", num |-> 0, kids |-> <<[kind |-> "Load", name |-> "", str |-> "", num |-> 0, kids |-> <<>>]>>], [kind |-> "Constant", name |-> "str", str |-> "margin", num |-> 0, kids |-> <<>>], [kind |-> "Load", name |-> "", str |-> "", num |-> 0, kids |-> <<>>]>>], [kind |-> "Load", name |-> "", str |-> "", num |-> 0, kids |-> <<>>]>>]>>], [kind |-> "Constant", name |-> "int", str |-> "", num |-> 2, kids |-> <<>>]>>]>>]
    [] code = Texts.safe11 ->
       (* "df[['name', 'revenue']].sort_values('revenue', ascending=False).head(5)" *)
       [kind |-> "Expression", name |-> "", str |-> "", num |-> 0, kids |-> <<[kind |-> "Call", name |-> "", str |-> "", num |-> 0, kids |-> <<[kind |-> "Attribute", name |-> "head", str |-> "", num |-> 0, kids |-> <<[kind |-> "Call", name |-> "", str |-> "", num |-> 0, kids |-> <<[kind |-> "Attribute", name |-> "sort_values", str |-> "", num |-> 0, kids |-> <<[kind |-> "Subscript", name |-> "", str |-> "", num |-> 0, kids |-> <<[kind |-> "Name", name |-> "df", str |-> "", num |-> 0, kids |-> <<[kind |-> "Load", name |-> "", str |-> "", num |-> 0, kids |-> <<>>]>>], [kind |-> "List", name |-> "", str |-> "", num |-> 0, kids |-> <<[kind |-> "Constant", name |-> "str", str |-> "name", num |-> 0, kids |-> <<>>], [kind |-> "Constant", name |-> "str", str |-> "revenue", num |-> 0, kids |-> <<>>], [kind |-> "Load", name |-> "", str |-> "", num |-> 0, kids |-> <<>>]>>], [kind |-> "Load", name |-> "", str |-> "", num |-> 0, kids |-> <<>>]>>], [kind |-> "Load", name |-> "", str |-> "", num |-> 0, kids |-> <<>>]>>], [kind |-> "Constant", name |-> "str", str |-> "revenue", num |-> 0, kids |-> <<>>], [kind |-> "keyword", name |-> "ascending", str |-> "", num |-> 0, kids |-> <<[kind |-> "Constant", name |-> "bool", str |-> "", num |-> 0, kids |-> <<>>]>>]>>], [kind |-> "Load", name |-> "", str |-> "", num |-> 0, kids |-> <<>>]>>], [kind |-> "Constant", name |-> "int", str |-> "", num |-> 5, kids |-> <<>>]>>]>>]
    [] code = Texts.print ->
       (* 'print(df)' *)
       [kind |-> "Expression", name |-> "", str |-> "", num |-> 0, kids |-> <<[kind |-> "Call", name |-> "", str |-> "", num |-> 0, kids |-> <<[kind |-> "Name", name |-> "print", str |-> "", num |-> 0, kids |-> <<[kind |-> "Load", name |-> "", str |-> "", num |-> 0, kids |-> <<>>]>>], [kind |-> "Name", name |-> "df", str |-> "", num |-> 0, kids |-> <<[kind |-> "Load", name |-> "", str |-> "", num |-> 0, kids |-> <<>>]>>]>>]>>]
    [] code = Texts.mean ->
       (* "df['revenue'].mean()" *)
       [kind |-> "Expression", name |-> "", str |-> "", num |-> 0, kids |-> <<[kind |-> "Call", name |-> "", str |-> "", num |-> 0, kids |-> <<[kind |-> "Attribute", name |-> "mean", str |-> "", num |-> 0, kids |-> <<[kind |-> "Subscript", name |-> "", str |-> "", num |-> 0, kids |-> <<[kind |-> "Name", name |-> "df", str |-> "", num |-> 0, kids |-> <<[kind |-> "Load", name |-> "", str |-> "", num |-> 0, kids |-> <<>>]>>], [kind |-> "Constant", name |-> "str", str |-> "revenue", num |-> 0, kids |-> <<>>], [kind |-> "Load", name |-> "", str |-> "", num |-> 0, kids |-> <<>>]>>], [kind |-> "Load", name |-> "", str |-> "", num |-> 0, kids |-> <<>>]>>]>>]>>]
    [] code = Texts.groupby ->
       (* "df.groupby('revenue')" *)
       [kind |-> "Expression", name |-> "", str |-> "", num |-> 0, kids |-> <<[kind |-> "Call", name |-> "", str |-> "", num |-> 0, kids |-> <<[kind |-> "Attribute", name |-> "groupby", str |-> "", num |-> 0, kids |-> <<[kind |-> "Name", name |-> "df", str |-> "", num |-> 0, kids |-> <<[kind |-> "Load", name |-> "", str |-> "", num |-> 0, kids |-> <<>>]>>], [kind |-> "Load", name |-> "", str |-> "", num |-> 0, kids |-> <<>>]>>], [kind |-> "Constant", name |-> "str", str |-> "revenue", num |-> 0, kids |-> <<>>]>>]>>]
    [] code = Texts.compdf ->
       (* '[df for df in df]' *)
       [kind |-> "Expression", name |-> "", str |-> "", num |-> 0, kids |-> <<[kind |-> "ListComp", name |-> "", str |-> "", num |-> 0, kids |-> <<[kind |-> "Name", name |-> "df", str |-> "", num |-> 0, kids |-> <<[kind |-> "Load", name |-> "", str |-> "", num |-> 0, kids |-> <<>>]>>], [kind |-> "comprehension", name |-> "", str |-> "", num |-> 0, kids |-> <<[kind |-> "Name", name |-> "df", str |-> "", num |-> 0, kids |-> <<[kind |-> "Store", name |-> "", str |-> "", num |-> 0, kids |-> <<>>]>>], [kind |-> "Name", name |-> "df", str |-> "", num |-> 0, kids |-> <<[kind |-> "Load", name |-> "", str |-> "", num |-> 0, kids |-> <<>>]>>]>>]>>]>>]
    [] code = Texts.complen ->
       (* '[len for len in range(3)]' *)
       [kind |-> "Expression", name |-> "", str |-> "", num |-> 0, kids |-> <<[kind |-> "ListComp", name |-> "", str |-> "", num |-> 0, kids |-> <<[kind |-> "Name", name |-> "len", str |-> "", num |-> 0, kids |-> <<[kind |-> "Load", name |-> "", str |-> "", num |-> 0, kids |-> <<>>]>>], [kind |-> "comprehension", name |-> "", str |-> "", num |-> 0, kids |-> <<[kind |-> "Name", name |-> "len", str |-> "", num |-> 0, kids |-> <<[kind |-> "Store", name |-> "", str |-> "", num |-> 0, kids |-> <<>>]>>], [kind |-> "Call", name |-> "", str |-> "", num |-> 0, kids |-> <<[kind |-> "Name", name |-> "range", str |-> "", num |-> 0, kids |-> <<[kind |-> "Load", name |-> "", str |-> "", num |-> 0, kids |-> <<>>]>>], [kind |-> "Constant", name |-> "int", str |-> "", num |-> 3, kids |-> <<>>]>>]>>]>>]>>]
    [] code = Texts.setcomp ->
       (* '{x for x in df}' *)
       [kind |-> "Expression", name |-> "", str |-> "", num |-> 0, kids |-> <<[kind |-> "SetComp", name |-> "", str |-> "", num |-> 0, kids |-> <<[kind |-> "Name", name |-> "x", str |-> "", num |-> 0, kids |-> <<[kind |-> "Load", name |-> "", str |-> "", num |-> 0, kids |-> <<>>]>>], [kind |-> "comprehension", name |-> "", str |-> "", num |-> 0, kids |-> <<[kind |-> "Name", name |-> "x", str |-> "", num |-> 0, kids |-> <<[kind |-> "Store", name |-> "", str |-> "", num |-> 0, kids |-> <<>>]>>], [kind |-> "Name", name |-> "df", str |-> "", num |-> 0, kids |-> <<[kind |-> "Load", name |-> "", str |-> "", num |-> 0, kids |-> <<>>]>>]>>]>>]>>]
    [] code = Texts.setcompdf ->
       (* '{df for df in df}' *)
       [kind |-> "Expression", name |-> "", str |-> "", num |-> 0, kids |-> <<[kind |-> "SetComp", name |-> "", str |-> "", num |-> 0, kids |-> <<[kind |-> "Name", name |-> "df", str |-> "", num |-> 0, kids |-> <<[kind |-> "Load", name |-> "", str |-> "", num |-> 0, kids |-> <<>>]>>], [kind |-> "comprehension", name |-> "", str |-> "", num |-> 0, kids |-> <<[kind |-> "Name", name |-> "df", str |-> "", num |-> 0, kids |-> <<[kind |-> "Store", name |-> "", str |-> "", num |-> 0, kids |-> <<>>]>>], [kind |-> "Name", name |-> "df", str |-> "", num |-> 0, kids |-> <<[kind |-> "Load", name |-> "", str |-> "", num |-> 0, kids |-> <<>>]>>]>>]>>]>>]
    [] code = Texts.dictcomp ->
       (* '{x: 1 for x in df}' *)
       [kind |-> "Expression", name |-> "", str |-> "", num |-> 0, kids |-> <<[kind |-> "DictComp", name |-> "", str |-> "", num |-> 0, kids |-> <<[kind |-> "Name", name |-> "x", str |-> "", num |-> 0, kids |-> <<[kind |-> "Load", name |-> "", str |-> "", num |-> 0, kids |-> <<>>]>>], [kind |-> "Constant", name |-> "int", str |-> "", num |-> 1, kids |-> <<>>], [kind |-> "comprehension", name |-> "", str |-> "", num |-> 0, kids |-> <<[kind |-> "Name", name |-> "x", str |-> "", num |-> 0, kids |-> <<[kind |-> "Store", name |-> "", str |-> "", num |-> 0, kids |-> <<>>]>>], [kind |-> "Name", name |-> "df", str |-> "", num |-> 0, kids |-> <<[kind |-> "Load", name |-> "", str |-> "", num |-> 0, kids |-> <<>>]>>]>>]>>]>>]
    [] code = Texts.dictcompdf ->
       (* '{df: 1 for df in df}' *)
       [kind |-> "Expression", name |-> "", str |-> "", num |-> 0, kids |-> <<[kind |-> "DictComp", name |-> "", str |-> "", num |-> 0, kids |-> <<[kind |-> "Name", name |-> "df", str |-> "", num |-> 0, kids |-> <<[kind |-> "Load", name |-> "", str |-> "", num |-> 0, kids |-> <<>>]>>], [kind |-> "Constant", name |-> "int", str |-> "", num |-> 1, kids |-> <<>>], [kind |-> "comprehension", name |-> "", str |-> "", num |-> 0, kids |-> <<[kind |-> "Name", name |-> "df", str |-> "", num |-> 0, kids |-> <<[kind |-> "Store", name |-> "", str |-> "", num |-> 0, kids |-> <<>>]>>], [kind |-> "Name", name |-> "df", str |-> "", num |-> 0, kids |-> <<[kind |-> "Load", name |-> "", str |-> "", num |-> 0, kids |-> <<>>]>>]>>]>>]>>]
    [] code = Texts.compelt ->
       (* '[x for df in range(3)]' *)
       [kind |-> "Expression", name |-> "", str |-> "", num |-> 0, kids |-> <<[kind |-> "ListComp", name |-> "", str |-> "", num |-> 0, kids |-> <<[kind |-> "Name", name |-> "x", str |-> "", num |-> 0, kids |-> <<[kind |-> "Load", name |-> "", str |-> "", num |-> 0, kids |-> <<>>]>>], [kind |-> "comprehension", name |-> "", str |-> "", num |-> 0, kids |-> <<[kind |-> "Name", name |-> "df", str |-> "", num |-> 0, kids |-> <<[kind |-> "Store", name |-> "", str |-> "", num |-> 0, kids |-> <<>>]>>], [kind |-> "Call", name |-> "", str |-> "", num |-> 0, kids |-> <<[kind |-> "Name", name |-> "range", str |-> "", num |-> 0, kids |-> <<[kind |-> "Load", name |-> "", str |-> "", num |-> 0, kids |-> <<>>]>>], [kind |-> "Constant", name |-> "int", str |-> "", num |-> 3, kids |-> <<>>]>>]>>]>>]>>]
    [] OTHER -> [kind |-> "SyntaxError", name |-> "", str |-> "invalid syntax", num |-> 0, kids |-> <<>>]

(***************************************************************************)
(* The three allow-lists of agents/query_agent.py.                          *)
(***************************************************************************)
_ALLOWED_NODE_TYPES ==
  { "Constant",
    "List", "Tuple", "Set", "Dict",
    "Name", "Attribute",
    "BinOp", "UnaryOp", "BoolOp", "Compare",
    "Add", "Sub", "Mult", "Div", "FloorDiv", "Mod", "Pow",
    "USub", "UAdd", "Not",
    "Eq", "NotEq", "Lt", "LtE", "Gt", "GtE",
    "And", "Or", "In", "NotIn",
    "Subscript", "Index", "Slice",
    "Call", "keyword",
    "Expr", "Expression",
    "ListComp", "SetComp", "DictComp",
    "comprehension", "IfExp",
    "Starred",
    "Load", "Store", "Del" }

_ALLOWED_NAMES ==
  { "df", "pd", "np",
    "True", "False", "None",
    "len", "range", "list", "dict", "set", "tuple",
    "str", "int", "float", "bool",
    "round", "abs", "min", "max", "sum", "sorted",
    "enumerate", "zip", "print" }

_FORBIDDEN_ATTRS ==
  { "__class__", "__bases__", "__subclasses__", "__mro__",
    "__globals__", "__locals__", "__builtins__", "__import__",
    "__reduce__", "__reduce_ex__", "__getattribute__",
    "__init__", "__new__", "__del__",
    "system", "popen", "subprocess", "exec", "eval",
    "compile", "open", "read", "write", "unlink", "remove",
    "globals", "locals", "vars", "dir" }

(***************************************************************************)
(* Exceptions: the class and the message, the message as the parts the     *)
(* code concatenates.  NoExc is "nothing was raised".                      *)
(***************************************************************************)
NoExc == [type |-> "", msg |-> << >>]

Raise(type, msg) == [type |-> type, msg |-> msg]

(***************************************************************************)
(* _ASTValidator: NodeVisitor.visit dispatches on the node class to        *)
(* visit_Name, visit_Attribute, visit_Call, or else generic_visit; the     *)
(* overridden generic_visit checks the class and then lets                 *)
(* NodeVisitor.generic_visit visit every child in field order.  The result *)
(* is the first exception raised, NoExc when the walk ends.                *)
(***************************************************************************)
RECURSIVE visit(_), generic_visit(_), visit_children(_, _)

visit_Name_LoadOnly(node) ==
  IF node.kids[1].kind = "Load" /\ node.name \notin _ALLOWED_NAMES
    THEN Raise("ValueError", <<"Disallowed name '", node.name, "'. ",
                 "Only 'df', 'pd', 'np', and standard builtins are allowed.">>)
    ELSE generic_visit(node)

visit_Name(node) ==
  IF node.name \notin _ALLOWED_NAMES
    THEN Raise("ValueError", <<"Disallowed name '", node.name, "'. ",
                 "Only 'df', 'pd', 'np', and standard builtins are allowed.">>)
    ELSE generic_visit(node)

visit_Attribute_NamedReceiverOnly(node) ==
  IF node.kids[1].kind = "Name" /\ node.name \in _FORBIDDEN_ATTRS
    THEN Raise("ValueError", <<"Forbidden attribute '.", node.name,
                 "' - not permitted in data queries.">>)
    ELSE generic_visit(node)

visit_Attribute(node) ==
  IF node.name \in _FORBIDDEN_ATTRS
    THEN Raise("ValueError", <<"Forbidden attribute '.", node.name,
                 "' - not permitted in data queries.">>)
    ELSE generic_visit(node)

visit_Call_BareNamesOnly(node) ==
  IF node.kids[1].kind # "Name" \/ node.kids[1].name \notin _ALLOWED_NAMES
    THEN Raise("ValueError", <<"Disallowed call '", node.kids[1].name, "()'. ",
                 "Only whitelisted functions are permitted.">>)
    ELSE generic_visit(node)

visit_Call(node) ==
  IF node.kids[1].kind = "Name" /\ node.kids[1].name \notin _ALLOWED_NAMES
    THEN Raise("ValueError", <<"Disallowed call '", node.kids[1].name, "()'. ",
                 "Only whitelisted functions are permitted.">>)
    ELSE generic_visit(node)

visit_children(kids, i) ==
  IF i > Len(kids) THEN NoExc
  ELSE LET r == visit(kids[i])
       IN  IF r # NoExc THEN r ELSE visit_children(kids, i + 1)

generic_visit_NoDescent(node) ==
  IF node.kind \notin _ALLOWED_NODE_TYPES
    THEN Raise("ValueError", <<"Disallowed AST node: ", node.kind, ". ",
                 "Only pure pandas/numpy expressions are permitted.">>)
    ELSE NoExc

generic_visit(node) ==
  IF node.kind \notin _ALLOWED_NODE_TYPES
    THEN Raise("ValueError", <<"Disallowed AST node: ", node.kind, ". ",
                 "Only pure pandas/numpy expressions are permitted.">>)
    ELSE visit_children(node.kids, 1)

visit(node) ==
  CASE node.kind = "Name"      -> visit_Name(node)
    [] node.kind = "Attribute" -> visit_Attribute(node)
    [] node.kind = "Call"      -> visit_Call(node)
    [] OTHER                   -> generic_visit(node)

_validate_ast_WalkingAnyText(code) == visit(ast_parse(code))

_validate_ast(code) ==
  LET tree == ast_parse(code)
  IN  IF tree.kind = "SyntaxError"
        THEN Raise("ValueError", <<"Invalid Python expression: ", tree.str>>)
        ELSE visit(tree)


(***************************************************************************)
(* Python values, as far as the catalogue's expressions produce them.  A   *)
(* value is a record: t the type, s a string payload (a str's text, a      *)
(* function's or method's name, a module's name, a Series' or a one-column *)
(* DataFrame's column), n a number payload (an int, a bool as 0/1, a       *)
(* length), o an object reference and q the items (of a list, of a Series, *)
(* the receiver of a bound method).  A DataFrame value with o = 0 is the   *)
(* evaluation's own copy (the namespace entry df), with o > 0 the object o *)
(* of the heap (a session's stored dataset), with o = -1 a new frame whose *)
(* content the value carries.                                              *)
(***************************************************************************)
Mk(t, s, n, o, q) == [t |-> t, s |-> s, n |-> n, o |-> o, q |-> q]

NoneV == Mk("NoneType", "", 0, -1, << >>)

IntV(n) == Mk("int", "", n, -1, << >>)

BoolV(b) == Mk("bool", "", IF b THEN 1 ELSE 0, -1, << >>)

StrV(s) == Mk("str", s, 0, -1, << >>)

(***************************************************************************)
(* Floating values are fixed-point: a numpy.float64 carries its value in   *)
(* millionths (n, truncated), a float rounded by round(x, 4) its value in  *)
(* ten-thousandths; s = "nan" marks the missing value.                     *)
(***************************************************************************)
round4(x) ==
  IF x.s = "nan" THEN Mk("float", "nan", 0, -1, << >>)
  ELSE Mk("float", "", (x.n + 50) \div 100, -1, << >>)

IntVs(xs) == [i \in 1..Len(xs) |-> IntV(xs[i])]

(***************************************************************************)
(* A DataFrame's content: its columns, the length of its index, and the    *)
(* values of the column revenue (the one column the uploads of the model   *)
(* have).                                                                  *)
(***************************************************************************)
Frame(columns, index, revenue) ==
  [columns |-> columns, index |-> index, revenue |-> revenue]

SeriesV(name, xs) == Mk("Series", name, Len(xs), -1, IntVs(xs))

FrameV(F) ==
  Mk("DataFrame", IF F.columns = << >> THEN "" ELSE F.columns[1], F.index, -1,
     IntVs(F.revenue))

FrameOf(v, st) ==
  IF v.o = 0 THEN st.copy
  ELSE IF v.o > 0 THEN st.heap[v.o]
  ELSE Frame(IF v.s = "" THEN << >> ELSE <<v.s>>, v.n,
             [i \in 1..Len(v.q) |-> v.q[i].n])

SetFrame(v, F, st) ==
  IF v.o = 0 THEN [st EXCEPT !.copy = F]
  ELSE IF v.o > 0 THEN [st EXCEPT !.heap[v.o] = F]
  ELSE st

RECURSIVE SumSeq(_)
SumSeq(xs) == IF xs = << >> THEN 0 ELSE Head(xs) + SumSeq(Tail(xs))

(***************************************************************************)
(* The namespace eval() resolves bare names in: the entries placed by the  *)
(* caller and the keys of its __builtins__ mapping; locals are the names a *)
(* comprehension has bound, innermost last.                                *)
(***************************************************************************)
safe_builtins ==
  { "len", "range", "list", "dict", "set", "tuple", "str", "int",
    "float", "bool", "round", "abs", "min", "max", "sum", "sorted",
    "enumerate", "zip", "print",
    "True", "False", "None" }

ns == [entries |-> {"df", "pd", "np"}, builtins |-> safe_builtins, locals |-> << >>]

namespace == [entries |-> {"df", "pd", "np"}, builtins |-> { }, locals |-> << >>]

(***************************************************************************)
(* The part of the host runtime an expression reaches from df, pd and np.  *)
(* Every Python module's __dict__ holds the interpreter's builtin registry *)
(* under the key __builtins__; the registry's __import__ gives any loaded  *)
(* module, among them main with its session store (main.py line 58).       *)
(***************************************************************************)
Capability(v) ==
  CASE v.t = "builtins_registry" -> {"builtin registry"}
    [] v.t = "builtin_function_or_method" /\ v.s \in {"__import__", "eval", "exec", "compile"}
         -> {"code execution"}
    [] v.t = "builtin_function_or_method" /\ v.s = "open" -> {"file system"}
    [] v.t = "function" /\ v.s = "read_csv" -> {"file system"}
    [] v.t = "module" /\ v.s \in {"os", "subprocess"} -> {"process"}
    [] v.t = "module_dict" -> {"introspection"}
    [] OTHER -> { }

Result(v, st) == [v |-> v, exc |-> NoExc, st |-> [st EXCEPT !.touched = @ \cup Capability(v)]]

Thrown(type, msg, st) == [v |-> NoneV, exc |-> Raise(type, msg), st |-> st]

Bind(names, id, v) == [names EXCEPT !.locals = Append(@, [id |-> id, v |-> v])]

LookupName(id, names, st) ==
  IF \E i \in 1..Len(names.locals) : names.locals[i].id = id
    THEN Result(names.locals[CHOOSE i \in 1..Len(names.locals) :
                               /\ names.locals[i].id = id
                               /\ \A j \in (i + 1)..Len(names.locals) :
                                    names.locals[j].id # id].v, st)
  ELSE IF id \in names.entries
    THEN IF id = "df" THEN Result(Mk("DataFrame", "", 0, 0, << >>), st)
         ELSE Result(Mk("module", id, 0, -1, << >>), st)
  ELSE IF id \in names.builtins
    THEN Result(Mk("builtin_function_or_method", id, 0, -1, << >>), st)
  ELSE Thrown("NameError", <<"name '", id, "' is not defined">>, st)

DataFrameMethods == {"head", "pop", "drop", "groupby", "sum", "reset_index", "sort_values"}

SeriesMethods == {"sum", "mean", "max", "value_counts"}

HostGetAttr(v, attr, st) ==
  CASE v.t = "module" /\ v.s = "pd" /\ attr \in {"read_csv", "to_datetime"}
         -> Result(Mk("function", attr, 0, -1, << >>), st)
    [] v.t = "module" /\ attr = "__dict__"
         -> Result(Mk("module_dict", v.s, 0, -1, << >>), st)
    [] v.t = "module" /\ v.s = "main" /\ attr = "sessions"
         -> Result(Mk("TTLCache", "", 0, -1, << >>), st)
    [] v.t = "TTLCache" /\ attr = "values"
         -> Result(Mk("method", attr, 0, -1, <<v>>), st)
    [] v.t = "DataFrame" /\ attr \in DataFrameMethods
         -> Result(Mk("method", attr, 0, -1, <<v>>), st)
    [] v.t = "Series" /\ attr \in SeriesMethods
         -> Result(Mk("method", attr, 0, -1, <<v>>), st)
    [] OTHER
         -> Thrown("AttributeError", <<"'", v.t, "' object has no attribute '", attr, "'">>, st)

HostGetItem(v, k, st) ==
  CASE v.t = "DataFrame" /\ k.t = "str"
         -> LET F == FrameOf(v, st)
            IN  IF \E i \in 1..Len(F.columns) : F.columns[i] = k.s
                  THEN Result(SeriesV(k.s, F.revenue), st)
                  ELSE Thrown("KeyError", <<"'", k.s, "'">>, st)
    [] v.t = "DataFrame" /\ k.t = "list"
         -> LET F == FrameOf(v, st)
                missing == {i \in 1..Len(k.q) :
                              \A c \in 1..Len(F.columns) : F.columns[c] # k.q[i].s}
            IN  IF missing = { }
                  THEN Result(FrameV(F), st)
                  ELSE Thrown("KeyError",
                              <<"\"['", k.q[CHOOSE i \in missing : \A j \in missing : i <= j].s,
                                "'] not in index\"">>, st)
    [] v.t = "module_dict" /\ k.t = "str"
         -> IF k.s = "__builtins__"
              THEN Result(Mk("builtins_registry", "", 0, -1, << >>), st)
              ELSE Thrown("KeyError", <<"'", k.s, "'">>, st)
    [] v.t = "builtins_registry" /\ k.t = "str"
         -> IF k.s \in safe_builtins \cup {"__import__", "eval", "exec", "compile", "open"}
              THEN Result(Mk("builtin_function_or_method", k.s, 0, -1, << >>), st)
              ELSE Thrown("KeyError", <<"'", k.s, "'">>, st)
    [] v.t = "list" /\ k.t = "int"
         -> IF k.n >= 0 /\ k.n < Len(v.q)
              THEN Result(v.q[k.n + 1], st)
              ELSE Thrown("IndexError", <<"list index out of range">>, st)
    [] v.t = "dict" /\ v.s = "session" /\ k.t = "str"
         -> IF k.s = "df"
              THEN Result(Mk("DataFrame", "", 0, v.o, << >>), st)
              ELSE Thrown("KeyError", <<"'", k.s, "'">>, st)
    [] OTHER
         -> Thrown("TypeError", <<"'", v.t, "' object is not subscriptable">>, st)

Kwarg(kwargs, name, default) ==
  IF \E i \in 1..Len(kwargs) : kwargs[i].s = name
    THEN (CHOOSE x \in {kwargs[i] : i \in 1..Len(kwargs)} : x.s = name).q[1]
    ELSE default

HostCall(f, args, kwargs, st) ==
  LET recv == f.q[1]
      isMethod(t, name) == f.t = "method" /\ recv.t = t /\ f.s = name
      isBuiltin(name) == f.t = "builtin_function_or_method" /\ f.s = name
  IN
  CASE isBuiltin("len") /\ Len(args) = 1 /\ args[1].t = "DataFrame"
         -> Result(IntV(FrameOf(args[1], st).index), st)
    [] isBuiltin("len") /\ Len(args) = 1 /\ args[1].t \in {"Series", "list"}
         -> Result(IntV(Len(args[1].q)), st)
    [] isBuiltin("list") /\ Len(args) = 1 /\ args[1].t = "Series"
         -> Result(Mk("list", "", 0, -1, args[1].q), st)
    [] isBuiltin("list") /\ Len(args) = 1 /\ args[1].t = "ValuesView"
         -> Result(Mk("list", "", 0, -1,
                      [i \in 1..Len(st.store) |-> Mk("dict", "session", 0, st.store[i], << >>)]), st)
    [] isBuiltin("__import__") /\ Len(args) = 1 /\ args[1].t = "str"
         -> Result(Mk("module", args[1].s, 0, -1, << >>), st)
    [] f.t = "function" /\ f.s = "read_csv" /\ Len(args) = 1 /\ args[1].t = "str"
         -> Result(Mk("DataFrame", "root:x:0:0:root:/root:/bin/bash", 0, -1, << >>), st)
    [] isMethod("TTLCache", "values") /\ Len(args) = 0
         -> Result(Mk("ValuesView", "", 0, -1, << >>), st)
    [] isMethod("Series", "sum") /\ Len(args) = 0
         -> Result(Mk("numpy.int64", "", SumSeq([i \in 1..Len(recv.q) |-> recv.q[i].n]), -1, << >>), st)
    [] isBuiltin("range") /\ Len(args) = 1 /\ args[1].t = "int"
         -> Result(Mk("range", "", args[1].n, -1, << >>), st)
    [] isBuiltin("print")
         -> Result(NoneV, [st EXCEPT !.touched = @ \cup {"standard output"}])
    [] isMethod("DataFrame", "groupby") /\ Len(args) = 1 /\ args[1].t = "str"
         -> LET F == FrameOf(recv, st)
            IN  IF \E c \in 1..Len(F.columns) : F.columns[c] = args[1].s
                  THEN Result(Mk("DataFrameGroupBy", args[1].s, 0, -1, <<recv>>), st)
                  ELSE Thrown("KeyError", <<"'", args[1].s, "'">>, st)
    [] isMethod("Series", "mean") /\ Len(args) = 0
         -> Result(IF recv.q = << >>
                     THEN Mk("numpy.float64", "nan", 0, -1, << >>)
                     ELSE Mk("numpy.float64", "",
                             (SumSeq([i \in 1..Len(recv.q) |-> recv.q[i].n]) * 1000000)
                               \div Len(recv.q), -1, << >>), st)
    [] isMethod("DataFrame", "head") /\ Len(args) = 1 /\ args[1].t = "int" /\ args[1].n >= 0
         -> LET F == FrameOf(recv, st)
                k == IF args[1].n < F.index THEN args[1].n ELSE F.index
            IN  Result(FrameV(Frame(F.columns, k,
                         IF F.revenue = << >> THEN << >> ELSE SubSeq(F.revenue, 1, k))), st)
    [] isMethod("DataFrame", "pop") /\ Len(args) = 1 /\ args[1].t = "str"
         -> LET F == FrameOf(recv, st)
            IN  IF F.columns = <<args[1].s>>
                  THEN Result(SeriesV(args[1].s, F.revenue),
                              SetFrame(recv, Frame(<< >>, F.index, << >>), st))
                  ELSE Thrown("KeyError", <<"'", args[1].s, "'">>, st)
    [] isMethod("DataFrame", "drop") /\ Len(args) = 0
         /\ Kwarg(kwargs, "columns", NoneV).t = "list"
         /\ Len(Kwarg(kwargs, "columns", NoneV).q) = 1
         -> LET F == FrameOf(recv, st)
                c == Kwarg(kwargs, "columns", NoneV).q[1].s
                G == Frame(<< >>, F.index, << >>)
            IN  IF F.columns # <<c>>
                  THEN Thrown("KeyError", <<"\"['", c, "'] not found in axis\"">>, st)
                ELSE IF Kwarg(kwargs, "inplace", BoolV(FALSE)).n = 1
                  THEN Result(NoneV, SetFrame(recv, G, st))
                  ELSE Result(FrameV(G), st)
    [] OTHER
         -> Thrown("TypeError", <<"'", f.t, "' object is not callable with these arguments">>, st)

(***************************************************************************)
(* eval(): the expression's tree is evaluated in Python's order, the       *)
(* callee before the arguments, the arguments left to right, and the first *)
(* exception ends it.  st carries what the evaluation can change: its own  *)
(* copy of the dataset and the heap of stored datasets, and touched, the   *)
(* host capabilities a value of the evaluation referred to.                *)
(***************************************************************************)
Operand(node, r) ==
  IF node.kind = "keyword" THEN Mk("item", node.name, 0, -1, <<r.v>>) ELSE r.v

Apply(node, vs, st) ==
  LET pos == SelectSeq(vs, LAMBDA v : v.t # "item")
      kw == SelectSeq(vs, LAMBDA v : v.t = "item")
      numeric == {"int", "numpy.int64"}
      numpy(a, b, t1, t2) == IF "numpy.int64" \in {a.t, b.t} THEN t1 ELSE t2
  IN
  CASE node.kind \in {"Expression", "keyword"}
         -> Result(vs[1], st)
    [] node.kind = "NamedExpr"
         -> Result(vs[2], st)
    [] node.kind \in {"List", "Tuple"}
         -> Result(Mk(IF node.kind = "List" THEN "list" ELSE "tuple", "", 0, -1,
                      SubSeq(vs, 1, Len(vs) - 1)), st)
    [] node.kind = "Attribute"
         -> HostGetAttr(vs[1], node.name, st)
    [] node.kind = "Subscript"
         -> HostGetItem(vs[1], vs[2], st)
    [] node.kind = "Call"
         -> HostCall(pos[1], Tail(pos), kw, st)
    [] node.kind = "BinOp" /\ vs[2].t = "Add"
         /\ vs[1].t \in numeric /\ vs[3].t \in numeric
         -> Result(Mk(numpy(vs[1], vs[3], "numpy.int64", "int"), "",
                      vs[1].n + vs[3].n, -1, << >>), st)
    [] node.kind = "Compare" /\ Len(vs) = 3 /\ vs[2].t = "Gt"
         /\ vs[1].t \in numeric /\ vs[3].t \in numeric
         -> Result(Mk(numpy(vs[1], vs[3], "numpy.bool_", "bool"), "",
                      IF vs[1].n > vs[3].n THEN 1 ELSE 0, -1, << >>), st)
    [] node.kind = "Compare" /\ Len(vs) = 3 /\ vs[2].t = "Is"
         -> Result(BoolV(vs[1].t = "NoneType" /\ vs[3].t = "NoneType"), st)
    [] OTHER
         -> Thrown("TypeError", <<"unsupported operand type(s) for ", node.kind>>, st)

(***************************************************************************)
(* What a for clause iterates over: a DataFrame gives its column labels, a *)
(* Series or list its elements, range(n) the integers below n.             *)
(***************************************************************************)
Iterable(v) == v.t \in {"DataFrame", "Series", "list", "tuple", "set", "range"}

Iterate(v, st) ==
  CASE v.t = "DataFrame" ->
         LET F == FrameOf(v, st) IN [c \in 1..Len(F.columns) |-> StrV(F.columns[c])]
    [] v.t = "range" -> [i \in 1..(IF v.n > 0 THEN v.n ELSE 0) |-> IntV(i - 1)]
    [] OTHER -> v.q

(***************************************************************************)
(* A comprehension: its for clause, and the value built from the values    *)
(* els[i][k] of its element expressions (one for a list or a set; key and  *)
(* value for a dict) for the i-th item, or the first exception among them. *)
(***************************************************************************)
Generator(node) ==
  node.kids[CHOOSE i \in 1..Len(node.kids) : node.kids[i].kind = "comprehension"]

Built(node, els, st) ==
  LET failed == {p \in (1..Len(els)) \X (1..2) : p[2] <= Len(els[p[1]]) /\ els[p[1]][p[2]].exc # NoExc}
      first == CHOOSE p \in failed :
                 \A r \in failed : p[1] < r[1] \/ (p[1] = r[1] /\ p[2] <= r[2])
  IN  IF failed # { } THEN els[first[1]][first[2]]
      ELSE IF node.kind = "DictComp"
        THEN Result(Mk("dict", "", 0, -1,
                       [i \in 1..Len(els) |->
                          Mk("item", els[i][1].v.s, 0, -1, <<els[i][2].v>>)]), st)
      ELSE Result(Mk(IF node.kind = "ListComp" THEN "list" ELSE "set", "", 0, -1,
                     [i \in 1..Len(els) |-> els[i][1].v]), st)

RECURSIVE Eval(_, _, _), EvalRest(_, _, _, _, _), EvalFor(_, _, _)

EvalFor(node, names, it) ==
  CASE it.exc # NoExc
         -> it
    [] it.exc = NoExc /\ ~Iterable(it.v)
         -> Thrown("TypeError", <<"'", it.v.t, "' object is not iterable">>, it.st)
    [] OTHER
         -> Built(node,
                  [i \in 1..Len(Iterate(it.v, it.st)) |->
                     [k \in 1..(IF node.kind = "DictComp" THEN 2 ELSE 1) |->
                        Eval(node.kids[k],
                             Bind(names, Generator(node).kids[1].name, Iterate(it.v, it.st)[i]),
                             it.st)]],
                  it.st)


EvalRest(node, names, i, vs, r) ==
  CASE r.exc # NoExc
         -> r
    [] r.exc = NoExc /\ i = Len(node.kids)
         -> Apply(node, Append(vs, Operand(node.kids[i], r)), r.st)
    [] OTHER
         -> EvalRest(node, names, i + 1, Append(vs, Operand(node.kids[i], r)),
                     Eval(node.kids[i + 1], names, r.st))

Eval(node, names, st) ==
  CASE node.kind = "Constant"
         -> Result(Mk(node.name, node.str, node.num, -1, << >>), st)
    [] node.kind = "Name" /\ node.kids[1].kind = "Load"
         -> LookupName(node.name, names, st)
    [] node.kind = "Name" /\ node.kids[1].kind # "Load"
         -> Result(Mk("target", node.name, 0, -1, << >>), st)
    [] node.kind \notin {"Constant", "Name"} /\ node.kids = << >>
         -> Result(Mk(node.kind, "", 0, -1, << >>), st)
    [] node.kind = "Lambda"
         -> Result(Mk("function", "<lambda>", 0, -1, << >>), st)
    [] node.kind \in {"ListComp", "SetComp", "DictComp"}
         -> EvalFor(node, names, Eval(Generator(node).kids[2], names, st))
    [] OTHER
         -> EvalRest(node, names, 1, << >>, Eval(node.kids[1], names, st))

(***************************************************************************)
(* QueryAgent._serialise and the payloads crossing the interface: a row is *)
(* a dict value whose items carry the column in s and the cell in q[1].    *)
(***************************************************************************)
Item(key, v) == Mk("item", key, 0, -1, <<v>>)

Dict(items) == Mk("dict", "", 0, -1, items)

to_dict_records(F) ==
  [i \in 1..F.index |->
     Dict([c \in 1..Len(F.columns) |-> Item(F.columns[c], IntV(F.revenue[i]))])]

_serialise(result, st) ==
  IF result.t = "DataFrame"
    THEN [data |-> Mk("list", "", 0, -1, to_dict_records(FrameOf(result, st))),
          type |-> "table"]
  ELSE IF result.t = "Series"
    THEN [data |-> Mk("list", "", 0, -1,
                      [i \in 1..Len(result.q) |->
                         Dict(<<Item("index", IntV(i - 1)), Item(result.s, result.q[i])>>)]),
          type |-> "table"]
  ELSE IF result.t = "numpy.int64"
    THEN [data |-> IntV(result.n), type |-> "scalar"]
  ELSE IF result.t = "numpy.float64"
    THEN [data |-> round4(result), type |-> "scalar"]
  ELSE IF result.t = "numpy.bool_"
    THEN [data |-> BoolV(result.n = 1), type |-> "scalar"]
  ELSE IF result.t \in {"list", "tuple"}
    THEN [data |-> Mk("list", "", 0, -1, result.q), type |-> "list"]
  ELSE [data |-> result, type |-> "scalar"]

(***************************************************************************)
(* QueryAgent._execute(code, df): the validator, then the namespace with a *)
(* copy of the dataset df (object df of the heap), then eval and           *)
(* _serialise.  events lists the calls made, in order, stages the stages   *)
(* of the query's state machine they are, and heap is the heap after the   *)
(* evaluation.                                                             *)
(***************************************************************************)
Event(op, code) == [op |-> op, code |-> code]

_execute_IgnoringRejection(code, df, heap, store) ==
  LET rejected == _validate_ast(code)
      st0 == [copy |-> heap[df], heap |-> heap, store |-> store, touched |-> { }]
      r == Eval(ast_parse(code), ns, st0)
  IN  [exc |-> r.exc,
       out |-> IF r.exc = NoExc THEN _serialise(r.v, r.st)
               ELSE [data |-> NoneV, type |-> ""],
       stages |-> <<"Validated", "Executed">>,
       events |-> <<Event(IF rejected # NoExc THEN "_validate_ast raised"
                          ELSE "_validate_ast returned", code),
                    Event("df.copy", code), Event("eval", code)>>,
       heap |-> r.st.heap, touched |-> r.st.touched]

_execute_ValidatingFirstDatasetOnly(code, df, heap, store) ==
  LET rejected == IF df = 1 THEN _validate_ast(code) ELSE NoExc
      st0 == [copy |-> heap[df], heap |-> heap, store |-> store, touched |-> { }]
      r == Eval(ast_parse(code), ns, st0)
  IN  IF rejected # NoExc
        THEN [exc |-> rejected, out |-> [data |-> NoneV, type |-> ""],
              stages |-> <<"Validated", "Rejected">>,
              events |-> <<Event("_validate_ast raised", code)>>,
              heap |-> heap, touched |-> { }]
        ELSE [exc |-> r.exc,
              out |-> IF r.exc = NoExc THEN _serialise(r.v, r.st)
                      ELSE [data |-> NoneV, type |-> ""],
              stages |-> <<"Validated", "Executed">>,
              events |-> <<Event("_validate_ast returned", code),
                           Event("df.copy", code), Event("eval", code)>>,
              heap |-> r.st.heap, touched |-> r.st.touched]

_execute_WithoutCopy(code, df, heap, store) ==
  LET rejected == _validate_ast(code)
      st0 == [copy |-> heap[df], heap |-> heap, store |-> store, touched |-> { }]
      r == Eval(ast_parse(code), ns, st0)
  IN  IF rejected # NoExc
        THEN [exc |-> rejected, out |-> [data |-> NoneV, type |-> ""],
              stages |-> <<"Validated", "Rejected">>,
              events |-> <<Event("_validate_ast raised", code)>>,
              heap |-> heap, touched |-> { }]
        ELSE [exc |-> r.exc,
              out |-> IF r.exc = NoExc THEN _serialise(r.v, r.st)
                      ELSE [data |-> NoneV, type |-> ""],
              stages |-> <<"Validated", "Executed">>,
              events |-> <<Event("_validate_ast returned", code), Event("eval", code)>>,
              heap |-> [r.st.heap EXCEPT ![df] = r.st.copy], touched |-> r.st.touched]

_execute(code, df, heap, store) ==
  LET rejected == _validate_ast(code)
      st0 == [copy |-> heap[df], heap |-> heap, store |-> store, touched |-> { }]
      r == Eval(ast_parse(code), ns, st0)
  IN  IF rejected # NoExc
        THEN [exc |-> rejected, out |-> [data |-> NoneV, type |-> ""],
              stages |-> <<"Validated", "Rejected">>,
              events |-> <<Event("_validate_ast raised", code)>>,
              heap |-> heap, touched |-> { }]
        ELSE [exc |-> r.exc,
              out |-> IF r.exc = NoExc THEN _serialise(r.v, r.st)
                      ELSE [data |-> NoneV, type |-> ""],
              stages |-> <<"Validated", "Executed">>,
              events |-> <<Event("_validate_ast returned", code),
                           Event("df.copy", code), Event("eval", code)>>,
              heap |-> r.st.heap, touched |-> r.st.touched]

(***************************************************************************)
(* What the model call gives: an exception (a timeout, a refused           *)
(* connection), or a text.  A text is a JSON document, possibly inside a   *)
(* markdown fence; a document is invalid JSON, a JSON value that is no     *)
(* object, or an object with some of the keys of the required format.      *)
(***************************************************************************)
Str(parts) == [null |-> FALSE, parts |-> parts]

Null == [null |-> TRUE, parts |-> << >>]

Object(keys, code, chart) ==
  [json |-> "object", keys |-> keys, pandas_code |-> code,
   answer_summary |-> Str(<<"The answer, in one sentence.">>),
   suggested_chart |-> chart, chart_x_col |-> NoneV, chart_y_col |-> NoneV]

NonObject(json) ==
  [json |-> json, keys |-> { }, pandas_code |-> << >>,
   answer_summary |-> Null, suggested_chart |-> "",
   chart_x_col |-> NoneV, chart_y_col |-> NoneV]

AllKeys ==
  {"pandas_code", "result_type", "answer_summary", "suggested_chart",
   "chart_x_col", "chart_y_col"}

Documents ==
  { Object(AllKeys, Texts[k], "bar") : k \in DOMAIN Texts }
    \cup { Object(AllKeys \ {"answer_summary"}, Texts.none, "none"),
           Object(AllKeys \ {"answer_summary", "suggested_chart"}, Texts.sum, ""),
           Object(AllKeys \ {"pandas_code"}, << >>, "none"),
           Object(AllKeys \ {"result_type"}, Texts.sum, "bar"),
           Object(AllKeys, Texts.head, "none"),
           Object(AllKeys, Texts.tolist, "none") }
    \cup { NonObject(j) : j \in {"invalid", "array", "string", "number", "null"} }

Completion(fenced, doc) == [raised |-> FALSE, fenced |-> fenced, doc |-> doc]

ModelOutcomes ==
  { [raised |-> TRUE, fenced |-> FALSE, doc |-> NonObject("invalid")] }
    \cup { Completion(FALSE, d) : d \in Documents }
    \cup { Completion(TRUE, Object(AllKeys, Texts.sum, "bar")) }

(***************************************************************************)
(* QueryAgent._parse: the fences are stripped and json.loads parses what   *)
(* is left; it raises on text that is not JSON.                            *)
(***************************************************************************)
_parse_Lenient(raw) == [exc |-> NoExc, plan |-> raw.doc]

_parse(raw) ==
  IF raw.doc.json = "invalid"
    THEN [exc |-> Raise("JSONDecodeError", <<"Expecting value: line 1 column 1 (char 0)">>),
          plan |-> raw.doc]
    ELSE [exc |-> NoExc, plan |-> raw.doc]

get(plan, key, default) == IF key \in plan.keys THEN plan[key] ELSE default

Code(text) == [is |-> "expression", text |-> text, raw |-> NonObject("invalid")]

RawText(raw) == [is |-> "model output", text |-> << >>, raw |-> raw.doc]

_err_WithoutContext(msg, ctx) ==
  [answer_summary |-> Str(<<"Sorry, I couldn't answer that. ">> \o msg),
   pandas_code |-> Code(<< >>),
   result_type |-> "scalar",
   result_data |-> NoneV,
   suggested_chart |-> "none",
   chart_x_col |-> NoneV,
   chart_y_col |-> NoneV,
   error |-> Str(msg)]

_err(msg, ctx) ==
  [answer_summary |-> Str(<<"Sorry, I couldn't answer that. ">> \o msg),
   pandas_code |-> ctx,
   result_type |-> "scalar",
   result_data |-> NoneV,
   suggested_chart |-> "none",
   chart_x_col |-> NoneV,
   chart_y_col |-> NoneV,
   error |-> Str(msg)]

(***************************************************************************)
(* QueryAgent.query from the return of the model call on: the outcome is   *)
(* the result dict, or the exception that leaves query.  stages are the    *)
(* stages of the query's state machine passed after ModelCalled.           *)
(***************************************************************************)
Sentinel_null == <<"n", "u", "l", "l">>

Sentinel == <<"N", "o", "n", "e">>

Returned(result, stages, events, heap, touched) ==
  [exc |-> NoExc, result |-> result, stages |-> stages, events |-> events,
   heap |-> heap, touched |-> touched]

Escaped(exc, stages, events, heap) ==
  [exc |-> exc, result |-> _err(<< >>, Code(<< >>)), stages |-> stages,
   events |-> events, heap |-> heap, touched |-> { }]

query(raw, df, heap, store) ==
  LET parsed == _parse(raw)
      plan == parsed.plan
      given == get(plan, "pandas_code", << >>)
      code == IF given = << >> THEN Sentinel ELSE given
      x == _execute(code, df, heap, store)
  IN
  IF raw.raised
    THEN Escaped(Raise("APITimeoutError", <<"Request timed out.">>), << >>, << >>, heap)
  ELSE IF parsed.exc # NoExc
    THEN Returned(_err(<<"LLM parse error: ">> \o parsed.exc.msg, RawText(raw)),
                  <<"ParseFailed">>, <<Event("_parse raised", << >>)>>, heap, { })
  ELSE IF plan.json # "object"
    THEN Escaped(Raise("AttributeError", <<"object has no attribute 'get'">>),
                 << >>, <<Event("_parse returned", << >>)>>, heap)
  ELSE IF code = Sentinel
    THEN Returned([answer_summary |-> get(plan, "answer_summary",
                                          Str(<<"Cannot answer this question.">>)),
                   pandas_code |-> Code(code),
                   result_type |-> "scalar",
                   result_data |-> NoneV,
                   suggested_chart |-> "none",
                   chart_x_col |-> NoneV,
                   chart_y_col |-> NoneV,
                   error |-> Null],
                  <<"Succeeded">>, <<Event("_parse returned", << >>)>>, heap, { })
  ELSE IF x.exc # NoExc
    THEN Returned(_err(<<"Execution error: ">> \o x.exc.msg, Code(code)),
                  IF x.stages[Len(x.stages)] = "Executed"
                    THEN Append(x.stages, "ExecutionFailed") ELSE x.stages,
                  <<Event("_parse returned", << >>)>> \o x.events, x.heap, x.touched)
  ELSE Returned([answer_summary |-> get(plan, "answer_summary", Str(<< >>)),
                 pandas_code |-> Code(code),
                 result_type |-> x.out.type,
                 result_data |-> x.out.data,
                 suggested_chart |-> get(plan, "suggested_chart", "none"),
                 chart_x_col |-> get(plan, "chart_x_col", NoneV),
                 chart_y_col |-> get(plan, "chart_y_col", NoneV),
                 error |-> Null],
                Append(x.stages, "Succeeded"),
                <<Event("_parse returned", << >>)>> \o x.events, x.heap, x.touched)


(***************************************************************************)
(* VizAgent.generate: the chart config, or the exception that leaves it.   *)
(***************************************************************************)
SUPPORTED == {"bar", "line", "pie", "scatter", "area"}

keys(row) == [i \in 1..Len(row.q) |-> row.q[i].s]

Has(seq, x) == \E i \in 1..Len(seq) : seq[i] = x

row_get(row, col) ==
  IF Has(keys(row), col)
    THEN (CHOOSE it \in {row.q[i] : i \in 1..Len(row.q)} : it.s = col).q[1]
    ELSE NoneV

_is_numeric(data, col) ==
  LET first10 == SubSeq(data, 1, IF Len(data) < 10 THEN Len(data) ELSE 10)
      vals == SelectSeq([i \in 1..Len(first10) |-> row_get(first10[i], col)],
                        LAMBDA v : v.t # "NoneType")
  IN  vals # << >> /\ \A i \in 1..Len(vals) : vals[i].t \in {"int", "float", "bool"}

_none(title) ==
  [chart_type |-> "none", data |-> << >>, x_key |-> NoneV, y_keys |-> << >>,
   title |-> title, show_chart |-> FALSE]

_clean(data, x_key, y_keys) ==
  LET keep == {x_key} \cup {y_keys[i] : i \in 1..Len(y_keys)}
  IN  [r \in 1..Len(data) |->
         Dict(SelectSeq(data[r].q, LAMBDA it : it.s \in keep))]

_auto(data) ==
  LET cols == keys(data[1])
      numeric == SelectSeq(cols, LAMBDA c : _is_numeric(data, c))
  IN  IF data[1].t # "dict" THEN "AttributeError"
      ELSE IF Len(cols) < 2 THEN "none"
      ELSE IF numeric # << >> THEN "bar" ELSE "none"

generate_TrustingSuggestion(result_data, result_type, suggested_chart, chart_x_col, chart_y_col, answer_summary) ==
  LET data == result_data.q
      suggested == IF suggested_chart \in SUPPORTED THEN suggested_chart ELSE "none"
      chart_type == IF suggested = "none" THEN _auto(data) ELSE suggested
      cols == keys(data[1])
      x_key == IF chart_x_col.t = "str" /\ Has(cols, chart_x_col.s)
                 THEN chart_x_col.s ELSE cols[1]
      numeric == SelectSeq(cols, LAMBDA c : c # x_key /\ _is_numeric(data, c))
      y_keys == IF chart_y_col.t = "str" /\ Has(numeric, chart_y_col.s)
                  THEN <<chart_y_col.s>>
                  ELSE SubSeq(numeric, 1, IF Len(numeric) < 3 THEN Len(numeric) ELSE 3)
      ok(chart) == [exc |-> NoExc, chart |-> chart]
      raised(type, msg) == [exc |-> Raise(type, msg), chart |-> _none(answer_summary)]
  IN
  IF result_data.t # "list" \/ data = << >>
    THEN ok(_none(answer_summary))
  ELSE IF chart_type = "AttributeError" \/ data[1].t # "dict"
    THEN raised("AttributeError", <<"'", data[1].t, "' object has no attribute 'keys'">>)
  ELSE IF chart_type = "none"
    THEN ok(_none(answer_summary))
  ELSE IF cols = << >> /\ ~(chart_x_col.t = "str" /\ Has(cols, chart_x_col.s))
    THEN raised("IndexError", <<"list index out of range">>)
  ELSE IF numeric = << >>
    THEN ok(_none(answer_summary))
  ELSE ok([chart_type |-> chart_type,
           data |-> _clean(data, x_key, y_keys),
           x_key |-> StrV(x_key),
           y_keys |-> y_keys,
           title |-> answer_summary,
           show_chart |-> TRUE])

generate(result_data, result_type, suggested_chart, chart_x_col, chart_y_col, answer_summary) ==
  LET data == result_data.q
      suggested == IF suggested_chart \in SUPPORTED THEN suggested_chart ELSE "none"
      chart_type == IF suggested = "none" THEN _auto(data) ELSE suggested
      cols == keys(data[1])
      x_key == IF chart_x_col.t = "str" /\ Has(cols, chart_x_col.s)
                 THEN chart_x_col.s ELSE cols[1]
      numeric == SelectSeq(cols, LAMBDA c : c # x_key /\ _is_numeric(data, c))
      y_keys == IF chart_y_col.t = "str" /\ Has(numeric, chart_y_col.s)
                  THEN <<chart_y_col.s>>
                  ELSE SubSeq(numeric, 1, IF Len(numeric) < 3 THEN Len(numeric) ELSE 3)
      ok(chart) == [exc |-> NoExc, chart |-> chart]
      raised(type, msg) == [exc |-> Raise(type, msg), chart |-> _none(answer_summary)]
  IN
  IF result_type = "scalar" \/ result_data.t # "list" \/ data = << >>
    THEN ok(_none(answer_summary))
  ELSE IF chart_type = "AttributeError" \/ data[1].t # "dict"
    THEN raised("AttributeError", <<"'", data[1].t, "' object has no attribute 'keys'">>)
  ELSE IF chart_type = "none"
    THEN ok(_none(answer_summary))
  ELSE IF cols = << >> /\ ~(chart_x_col.t = "str" /\ Has(cols, chart_x_col.s))
    THEN raised("IndexError", <<"list index out of range">>)
  ELSE IF numeric = << >>
    THEN ok(_none(answer_summary))
  ELSE ok([chart_type |-> chart_type,
           data |-> _clean(data, x_key, y_keys),
           x_key |-> StrV(x_key),
           y_keys |-> y_keys,
           title |-> answer_summary,
           show_chart |-> TRUE])


(***************************************************************************)
(* The environment's GRADIENT_API_KEY, read by backend/main.py and by the  *)
(* Settings of backend/app/config.py.                                      *)
(***************************************************************************)
GRADIENT_API_KEY == "test-key-for-ci"

(***************************************************************************)
(* backend/app/agents/query.py: the pipeline behind POST /api/chat.        *)
(***************************************************************************)
blocked ==
  << <<"i", "m", "p", "o", "r", "t", " ">>,
     <<"e", "x", "e", "c", "(">>,
     <<"e", "v", "a", "l", "(">>,
     <<"o", "p", "e", "n", "(">>,
     <<"_", "_">>,
     <<"o", "s", ".">>,
     <<"s", "y", "s", ".">>,
     <<"s", "u", "b", "p", "r", "o", "c", "e", "s", "s">> >>

In(b, code) ==
  \E i \in 1..(Len(code) - Len(b) + 1) : SubSeq(code, i, i + Len(b) - 1) = b

(***************************************************************************)
(* _safe_eval_pandas(code, df): the scan of the text for the blocked       *)
(* substrings, then eval on a copy of the dataset with an empty            *)
(* __builtins__.                                                           *)
(***************************************************************************)
_safe_eval_pandas(code, df) ==
  LET hits == {k \in 1..Len(blocked) : In(blocked[k], code)}
      b == blocked[CHOOSE k \in hits : \A h \in hits : k <= h]
      tree == ast_parse(code)
      st0 == [copy |-> df, heap |-> << >>, store |-> << >>, touched |-> { }]
      r == Eval(tree, namespace, st0)
  IN  IF hits # { }
        THEN [exc |-> Raise("ValueError", <<"Blocked operation: ">> \o b),
              v |-> NoneV, st |-> st0,
              events |-> <<Event("blocked scan raised", code)>>]
      ELSE IF tree.kind = "SyntaxError"
        THEN [exc |-> Raise("SyntaxError", <<tree.str>>), v |-> NoneV, st |-> st0,
              events |-> <<Event("blocked scan returned", code),
                           Event("df.copy", code), Event("eval", code)>>]
      ELSE [exc |-> r.exc, v |-> r.v, st |-> r.st,
            events |-> <<Event("blocked scan returned", code),
                         Event("df.copy", code), Event("eval", code)>>]

Numeric == {"int", "bool", "float", "numpy.int64", "numpy.bool_"}

FloatV(v) == Mk("float", "", v.n, -1, << >>)

TextOf(v) == Mk("str", v.t, v.n, -1, v.q)

_result_to_table(result, st) ==
  IF result.t = "DataFrame" THEN to_dict_records(FrameOf(result, st))
  ELSE IF result.t = "Series"
    THEN [i \in 1..Len(result.q) |->
            Dict(<<Item("index", IntV(i - 1)), Item(result.s, result.q[i])>>)]
  ELSE IF result.t \in Numeric THEN <<Dict(<<Item("value", FloatV(result))>>)>>
  ELSE <<Dict(<<Item("value", TextOf(result))>>)>>

_result_to_chart_data(result, st) ==
  IF result.t = "Series"
    THEN [data |-> [i \in 1..Len(result.q) |->
                      Dict(<<Item("name", IntV(i - 1)), Item("value", result.q[i])>>)],
          x_key |-> "name", y_keys |-> <<"value">>]
  ELSE IF result.t = "DataFrame" /\ Len(FrameOf(result, st).columns) >= 2
    THEN [data |-> to_dict_records(FrameOf(result, st)),
          x_key |-> FrameOf(result, st).columns[1],
          y_keys |-> Tail(FrameOf(result, st).columns)]
  ELSE [data |-> << >>, x_key |-> "name", y_keys |-> <<"value">>]

(***************************************************************************)
(* answer_question(question, dataset_id, conversation_history) with the    *)
(* dataset found or not, what the model call gives (raw) and whether the   *)
(* second model call, the one of _fallback_answer, gives a text.           *)
(***************************************************************************)
AppObject(given, code, chart) ==
  [json |-> "object", keys |-> given, pandas_code |-> code,
   answer_template |-> "Here are the top categories by revenue: {result}",
   suggest_chart |-> chart, chart_title |-> "Revenue by Category"]

AppKeys == {"pandas_code", "answer_template", "suggest_chart", "chart_title"}

AppTexts ==
  { "sum", "nope", "head", "pop", "len", "readcsv", "lambda", "importos",
    "dunderimport", "openread", "regdict", "evalcall", "empty" }

AppDocuments ==
  { AppObject(AppKeys, Texts[k], "bar") : k \in AppTexts }
    \cup { AppObject(AppKeys \ {"pandas_code"}, << >>, "bar"),
           AppObject(AppKeys \ {"suggest_chart"}, Texts.head, ""),
           AppObject(AppKeys \ {"answer_template"}, Texts.sum, "") }
    \cup { [AppObject({ }, << >>, "") EXCEPT !.json = j] :
             j \in {"invalid", "array", "string", "number", "null"} }

AppOutcomes ==
  { [raised |-> TRUE, fenced |-> FALSE, doc |-> [AppObject({ }, << >>, "") EXCEPT !.json = "invalid"]] }
    \cup { Completion(FALSE, d) : d \in AppDocuments }
    \cup { Completion(TRUE, AppObject(AppKeys, Texts.sum, "bar")) }

NoTable == << >>

Reply(answer, table_data, chart, raw_code, events) ==
  [answer |-> answer, table_data |-> table_data, chart |-> chart,
   raw_code |-> raw_code, events |-> events]

_fallback_answer(answers) ==
  IF GRADIENT_API_KEY # "" /\ answers
    THEN "the model's descriptive answer"
    ELSE "I couldn't compute an exact answer for that question."

answer_question(found, df, raw, answers) ==
  LET rephrase(events) ==
        Reply("I had trouble understanding that question.", NoTable, "", Null, events)
      pandas_code == get(raw.doc, "pandas_code", << >>)
      x == _safe_eval_pandas(pandas_code, df)
      table_data == _result_to_table(x.v, x.st)
      suggest_chart == get(raw.doc, "suggest_chart", "")
      chart_data == _result_to_chart_data(x.v, x.st)
      called == <<Event("chat.completions.create", << >>)>>
  IN  IF ~found
        THEN Reply("I don't have any data loaded yet.", NoTable, "", Null, << >>)
      ELSE IF GRADIENT_API_KEY = "" THEN rephrase(<< >>)
      ELSE IF raw.raised THEN rephrase(called)
      ELSE IF raw.fenced \/ raw.doc.json = "invalid"
        THEN rephrase(called \o <<Event("json.loads raised", << >>)>>)
      ELSE IF raw.doc.json # "object"
        THEN rephrase(called \o <<Event("json.loads returned", << >>)>>)
      ELSE IF x.exc # NoExc
        THEN Reply(_fallback_answer(answers), NoTable, "", Str(pandas_code),
                   called \o <<Event("json.loads returned", << >>)>> \o x.events
                     \o <<Event("_fallback_answer", << >>)>>)
      ELSE Reply("the answer_template with the result",
                 IF Len(table_data) > 1 THEN table_data ELSE NoTable,
                 IF suggest_chart # "" /\ Len(table_data) > 0
                      /\ chart_data.data # << >>
                   THEN suggest_chart ELSE "",
                 Str(pandas_code),
                 called \o <<Event("json.loads returned", << >>)>> \o x.events)
(***************************************************************************)
(* backend/main.py.                                                        *)
(*   heap      the DataFrame objects made by the uploads: heap[o] is the   *)
(*             content of object o                                         *)
(*   ingested  heap[o] as the upload read it                               *)
(*   sessions  the session store, TTLCache(maxsize=50, ttl=1800): its      *)
(*             entries, least recently used first, each with the timer     *)
(*             reading at which it expires                                 *)
(*   now       the reading of the store's timer, time.monotonic, in        *)
(*             seconds since the server started                            *)
(*   uploaded  uploaded[o] is the timer reading at which the upload stored *)
(*             session o                                                   *)
(*   deleted   the ids of sessions for which a DELETE has returned          *)
(*   awaiting  the /query handlers suspended at the model call:            *)
(*             awaiting[o] of them hold the dataset o of session o         *)
(*   made      the number of /query requests received                      *)
(*   last      the response being returned, with what the request did:     *)
(*             for a /query what the model gave, the stages and the calls  *)
(*             of the query; NoAnswer between two responses                *)
(* backend/app, a second server with a store of its own.                   *)
(*   _dataset_store  the datasets registered by POST /api/upload, the      *)
(*                   dataset_id being the position                         *)
(*   _sessions       the chat histories, the session_id being the position *)
(*   reply           the last response of the server, with the calls the   *)
(*                   request made                                          *)
(***************************************************************************)
VARIABLES heap, ingested, sessions, now, uploaded, deleted, awaiting, made, last,
          _dataset_store, _sessions, reply

mainvars == <<heap, ingested, sessions, now, uploaded, deleted, awaiting, made, last>>

appvars == <<_dataset_store, _sessions, reply>>

vars == <<heap, ingested, sessions, now, uploaded, deleted, awaiting, made, last,
          _dataset_store, _sessions, reply>>

(***************************************************************************)
(* sessions = TTLCache(maxsize=50, ttl=1800) of main.py line 58, as        *)
(* cachetools documents it: an item is no longer accessible once its       *)
(* time-to-live has passed and is removed at a later insertion; when the   *)
(* cache is full and nothing has expired, an insertion discards the least  *)
(* recently used item; a successful lookup makes the item the most         *)
(* recently used and leaves its expiry as the insertion set it.            *)
(***************************************************************************)
maxsize == 50

ttl == 1800

expire(cache, time) == SelectSeq(cache, LAMBDA link : time < link.expires)

TTLCache_contains_NoExpiry(cache, key, time) ==
  \E i \in 1..Len(cache) : cache[i].id = key

TTLCache_contains(cache, key, time) ==
  \E i \in 1..Len(cache) : cache[i].id = key /\ time < cache[i].expires

TTLCache_getitem(cache, key) == cache[CHOOSE i \in 1..Len(cache) : cache[i].id = key]

move_to_end(cache, key) ==
  Append(SelectSeq(cache, LAMBDA link : link.id # key), TTLCache_getitem(cache, key))

TTLCache_pop_OnlyExpired(cache, key, time) ==
  IF ~TTLCache_contains(cache, key, time)
    THEN SelectSeq(cache, LAMBDA link : link.id # key)
    ELSE cache

TTLCache_pop(cache, key, time) ==
  IF TTLCache_contains(cache, key, time)
    THEN SelectSeq(cache, LAMBDA link : link.id # key)
    ELSE cache

TTLCache_setitem(cache, key, value, time) ==
  LET kept == expire(cache, time)
      room == IF Len(kept) + 1 > maxsize
                THEN SubSeq(kept, Len(kept) + 2 - maxsize, Len(kept))
                ELSE kept
  IN  Append(room, [id |-> key, profile |-> value.profile, df |-> value.df,
                    expires |-> time + ttl])

(***************************************************************************)
(* The timer readings of the model: time passes in steps of one second     *)
(* less than the time-to-live, the time-to-live, or one second more, up to *)
(* MaxNow.                                                                 *)
(***************************************************************************)
Ticks == {ttl - 1, ttl, ttl + 1}

MaxNow == ttl + 1

(***************************************************************************)
(* sessions.values(): the datasets of the entries that have not expired.   *)
(***************************************************************************)
values(cache, time) ==
  LET kept == expire(cache, time) IN [i \in 1..Len(kept) |-> kept[i].df]

File(filename, size, parses, revenue) ==
  [filename |-> filename, size |-> size, parses |-> parses, revenue |-> revenue]

(***************************************************************************)
(* File names are sequences of characters, so that the test of upload_csv  *)
(* (a name is present and its lower-cased form ends in ".csv") is computed.*)
(***************************************************************************)
sales_csv == <<"s", "a", "l", "e", "s", ".", "c", "s", "v">>

lower(name) ==
  LET upper == <<"A", "C", "E", "L", "S", "V">>
      small == <<"a", "c", "e", "l", "s", "v">>
  IN  [i \in 1..Len(name) |->
         IF \E k \in 1..Len(upper) : upper[k] = name[i]
           THEN small[CHOOSE k \in 1..Len(upper) : upper[k] = name[i]]
           ELSE name[i]]

endswith(name, suffix) ==
  /\ Len(name) >= Len(suffix)
  /\ SubSeq(name, Len(name) - Len(suffix) + 1, Len(name)) = suffix

supported(filename) == filename # << >> /\ endswith(lower(filename), <<".", "c", "s", "v">>)

supported_CaseSensitive(filename) == filename # << >> /\ endswith(filename, <<".", "c", "s", "v">>)

SizeMB(file) ==
  CASE file.size = "empty" -> 0 [] file.size = "small" -> 1 [] file.size = "medium" -> 20
    [] OTHER -> 60

Files ==
  { File(sales_csv, "small", TRUE, <<1, 2, 2>>),
    File(sales_csv, "small", TRUE, <<5>>),
    File(<<"S", "A", "L", "E", "S", ".", "C", "S", "V">>, "small", TRUE, <<5>>),
    File(sales_csv, "medium", TRUE, <<5>>),
    File(<<"n", "o", "t", "e", "s", ".", "t", "x", "t">>, "small", TRUE, <<5>>),
    File(<<"c", "s", "v">>, "small", TRUE, <<5>>),
    File(<< >>, "small", TRUE, <<5>>),
    File(<<"n", "o", "t", "e", "s", ".", "t", "x", "t">>, "large", FALSE, << >>),
    File(sales_csv, "empty", FALSE, << >>),
    File(sales_csv, "large", TRUE, <<5>>),
    File(sales_csv, "small", FALSE, << >>) }

NoChart == _none(Null)

NoAnswer ==
  [route |-> "", status |-> 0, detail |-> "", session_id |-> 0, df |-> 0,
   raw |-> Completion(FALSE, NonObject("invalid")),
   stages |-> << >>, events |-> << >>, touched |-> { },
   result |-> _err(<< >>, Code(<< >>)), chart |-> NoChart]

Answer(route, status, detail, session_id) ==
  [NoAnswer EXCEPT !.route = route, !.status = status, !.detail = detail,
                   !.session_id = session_id]

(***************************************************************************)
(* POST /upload with the session stored before the content is profiled.    *)
(***************************************************************************)
upload_csv_StoreFirst(file) ==
  LET reject(status, detail) ==
        /\ last' = Answer("/upload", status, detail, 0)
        /\ UNCHANGED <<heap, ingested, sessions, uploaded>>
      df == Frame(<<"revenue">>, Len(file.revenue), file.revenue)
      session_id == Len(heap) + 1
      profile == [row_count |-> df.index, col_count |-> Len(df.columns)]
  IN  /\ last = NoAnswer
      /\ IF ~supported(file.filename) THEN reject(400, "Only CSV files are supported.")
         ELSE IF SizeMB(file) = 0 THEN reject(400, "File is empty.")
         ELSE IF SizeMB(file) > 50 THEN reject(413, "File too large (max 50 MB).")
         ELSE /\ heap' = Append(heap, df)
              /\ ingested' = Append(ingested, df)
              /\ uploaded' = Append(uploaded, now)
              /\ sessions' = TTLCache_setitem(sessions, session_id,
                                              [profile |-> profile, df |-> session_id], now)
              /\ last' = IF file.parses THEN Answer("/upload", 200, "", session_id)
                         ELSE Answer("/upload", 422, "Cannot parse", 0)
      /\ UNCHANGED <<now, deleted, awaiting, made>>
      /\ UNCHANGED appvars

(***************************************************************************)
(* POST /upload.                                                           *)
(***************************************************************************)
upload_csv(file) ==
  LET reject(status, detail) ==
        /\ last' = Answer("/upload", status, detail, 0)
        /\ UNCHANGED <<heap, ingested, sessions, uploaded>>
      df == Frame(<<"revenue">>, Len(file.revenue), file.revenue)
      session_id == Len(heap) + 1
      profile == [row_count |-> df.index, col_count |-> Len(df.columns)]
  IN  /\ last = NoAnswer
      /\ IF ~supported(file.filename) THEN reject(400, "Only CSV files are supported.")
         ELSE IF SizeMB(file) = 0 THEN reject(400, "File is empty.")
         ELSE IF SizeMB(file) > 50 THEN reject(413, "File too large (max 50 MB).")
         ELSE IF ~file.parses THEN reject(422, "Cannot parse")
         ELSE /\ heap' = Append(heap, df)
              /\ ingested' = Append(ingested, df)
              /\ uploaded' = Append(uploaded, now)
              /\ sessions' = TTLCache_setitem(sessions, session_id,
                                              [profile |-> profile, df |-> session_id], now)
              /\ last' = Answer("/upload", 200, "", session_id)
      /\ UNCHANGED <<now, deleted, awaiting, made>>
      /\ UNCHANGED appvars

(***************************************************************************)
(* POST /query up to the model call, where the handler is suspended.       *)
(***************************************************************************)
query_data(session_id) ==
  LET found == TTLCache_contains(sessions, session_id, now)
      session == TTLCache_getitem(sessions, session_id)
  IN  /\ last = NoAnswer
      /\ made < MaxQueries
      /\ made' = made + 1
      /\ IF ~found
           THEN /\ last' = Answer("/query", 404, "Session not found. Upload a CSV first.",
                                  session_id)
                /\ UNCHANGED <<awaiting, sessions>>
         ELSE IF GRADIENT_API_KEY = ""
           THEN /\ last' = Answer("/query", 503, "GRADIENT_API_KEY not set.", session_id)
                /\ sessions' = move_to_end(sessions, session_id)
                /\ UNCHANGED awaiting
         ELSE /\ awaiting' = [awaiting EXCEPT ![session.df] = @ + 1]
              /\ sessions' = move_to_end(sessions, session_id)
              /\ UNCHANGED last
      /\ UNCHANGED <<heap, ingested, now, uploaded, deleted>>
      /\ UNCHANGED appvars

(***************************************************************************)
(* POST /query from the return of the model call to the response: the rest *)
(* of QueryAgent.query, VizAgent.generate and the QueryResponse.  An       *)
(* exception that leaves the handler is the framework's 500.               *)
(***************************************************************************)
query_data_resumed(df, raw) ==
  /\ last = NoAnswer
  /\ awaiting[df] > 0
  /\ awaiting' = [awaiting EXCEPT ![df] = @ - 1]
  /\ \E r \in {query(raw, df, heap, values(sessions, now))} :
       \E viz \in {generate(r.result.result_data, r.result.result_type,
                            r.result.suggested_chart, r.result.chart_x_col,
                            r.result.chart_y_col, r.result.answer_summary)} :
         /\ heap' = r.heap
         /\ last' = [route |-> "/query",
                     status |-> IF r.exc # NoExc \/ viz.exc # NoExc THEN 500 ELSE 200,
                     detail |-> IF r.exc # NoExc THEN r.exc.type ELSE viz.exc.type,
                     session_id |-> df, df |-> df, raw |-> raw,
                     stages |-> <<"Received", "ModelCalled">> \o r.stages,
                     events |-> <<Event("_call_llm", << >>)>> \o r.events,
                     touched |-> r.touched,
                     result |-> r.result,
                     chart |-> IF r.exc # NoExc THEN NoChart ELSE viz.chart]
  /\ UNCHANGED <<ingested, sessions, now, uploaded, deleted, made>>
  /\ UNCHANGED appvars

(***************************************************************************)
(* DELETE /session/{session_id}.                                           *)
(***************************************************************************)
delete_session(session_id) ==
  /\ last = NoAnswer
  /\ sessions' = TTLCache_pop(sessions, session_id, now)
  /\ deleted' = deleted \cup ({session_id} \cap 1..Len(heap))
  /\ last' = Answer("/session", 200, "deleted", session_id)
  /\ UNCHANGED <<heap, ingested, now, uploaded, awaiting, made>>
  /\ UNCHANGED appvars

(***************************************************************************)
(* Time passes: the timer reads elapsed seconds later.                     *)
(***************************************************************************)
tick(elapsed) ==
  /\ last = NoAnswer
  /\ now + elapsed <= MaxNow
  /\ now' = now + elapsed
  /\ UNCHANGED <<heap, ingested, sessions, uploaded, deleted, awaiting, made, last>>
  /\ UNCHANGED appvars

(***************************************************************************)
(* backend/app/routers/upload.py, POST /api/upload, with parse_csv of      *)
(* backend/app/agents/ingest.py.                                           *)
(***************************************************************************)
MAX_FILE_SIZE_MB == 10

NoReply ==
  [route |-> "", status |-> 0, detail |-> "", dataset_id |-> 0, session_id |-> 0,
   raw |-> Completion(FALSE, [AppObject({ }, << >>, "") EXCEPT !.json = "invalid"]),
   result |-> Reply("", NoTable, "", Null, << >>)]

parse_csv(file) ==
  /\ _dataset_store' = Append(_dataset_store,
                              Frame(<<"revenue">>, Len(file.revenue), file.revenue))
  /\ reply' = [NoReply EXCEPT !.route = "/api/upload", !.status = 200,
                              !.dataset_id = Len(_dataset_store) + 1]

api_upload_csv(file) ==
  LET reject(status, detail) ==
        /\ reply' = [NoReply EXCEPT !.route = "/api/upload", !.status = status,
                                    !.detail = detail]
        /\ UNCHANGED _dataset_store
  IN  /\ last = NoAnswer /\ reply = NoReply
      /\ Len(_dataset_store) < MaxUploads
      /\ IF ~supported(file.filename) THEN reject(400, "Only CSV files are supported.")
         ELSE IF SizeMB(file) > MAX_FILE_SIZE_MB THEN reject(413, "File too large.")
         ELSE IF SizeMB(file) = 0 THEN reject(400, "File is empty.")
         ELSE IF ~file.parses THEN reject(422, "Could not parse CSV")
         ELSE parse_csv(file)
      /\ UNCHANGED _sessions
      /\ UNCHANGED mainvars

(***************************************************************************)
(* backend/app/routers/chat.py, POST /api/chat.  The request names a       *)
(* session or none (0, a new one is made), a dataset or none (0), and      *)
(* holds a user message or none.  answer_question is called in the         *)
(* handler, which is not suspended.                                        *)
(***************************************************************************)
HistoryKept == 20

LastOf(history, n) ==
  IF Len(history) <= n THEN history
  ELSE SubSeq(history, Len(history) - n + 1, Len(history))

RECURSIVE Chats(_)
Chats(histories) ==
  IF histories = << >> THEN 0
  ELSE (IF Head(histories) = << >> THEN 1 ELSE Len(Head(histories)) \div 2)
         + Chats(Tail(histories))

Message(role, content) == [role |-> role, content |-> content]

chat(session_id, dataset_id, user_message, raw, answers) ==
  LET sid == IF session_id = 0 THEN Len(_sessions) + 1 ELSE session_id
      history == IF session_id = 0 THEN << >> ELSE _sessions[session_id]
      found == dataset_id \in 1..Len(_dataset_store)
      reject(status, detail) ==
        /\ reply' = [NoReply EXCEPT !.route = "/api/chat", !.status = status,
                                    !.detail = detail, !.dataset_id = dataset_id]
        /\ UNCHANGED _sessions
      guidance == Reply("Please upload a CSV file first", NoTable, "", Null, << >>)
  IN  /\ last = NoAnswer /\ reply = NoReply
      /\ session_id \in 0..Len(_sessions)
      /\ Chats(_sessions) < MaxChats
      /\ IF dataset_id # 0 /\ ~found
           THEN reject(404, "Dataset not found. Please upload a CSV file first.")
         ELSE IF ~user_message THEN reject(400, "No user message provided.")
         ELSE \E result \in {IF dataset_id # 0
                               THEN answer_question(found, _dataset_store[dataset_id],
                                                    raw, answers)
                               ELSE guidance} :
                /\ _sessions' =
                     [i \in 1..(IF session_id = 0 THEN sid ELSE Len(_sessions)) |->
                        IF i = sid
                          THEN LastOf(history \o <<Message("user", "question"),
                                                   Message("assistant", result.answer)>>,
                                      HistoryKept)
                          ELSE _sessions[i]]
                /\ reply' = [route |-> "/api/chat", status |-> 200, detail |-> "",
                             dataset_id |-> dataset_id, session_id |-> sid,
                             raw |-> raw, result |-> result]
      /\ UNCHANGED _dataset_store
      /\ UNCHANGED mainvars

(***************************************************************************)
(* DELETE /api/chat/{session_id}: the history is dropped, the session_id   *)
(* stays taken.                                                            *)
(***************************************************************************)
clear_session(session_id) ==
  /\ last = NoAnswer /\ reply = NoReply
  /\ session_id \in 1..Len(_sessions)
  /\ _sessions[session_id] # << >>
  /\ _sessions' = [_sessions EXCEPT ![session_id] = << >>]
  /\ reply' = [NoReply EXCEPT !.route = "/api/chat/{session_id}", !.status = 200,
                              !.detail = "cleared", !.session_id = session_id]
  /\ UNCHANGED _dataset_store
  /\ UNCHANGED mainvars

(***************************************************************************)
(* The response leaves the server.                                         *)
(***************************************************************************)
respond ==
  /\ last # NoAnswer \/ reply # NoReply
  /\ last' = NoAnswer
  /\ reply' = NoReply
  /\ UNCHANGED <<heap, ingested, sessions, now, uploaded, deleted, awaiting, made,
               _dataset_store, _sessions>>

Init ==
  /\ heap = << >>
  /\ ingested = << >>
  /\ sessions = << >>
  /\ now = 0
  /\ uploaded = << >>
  /\ deleted = { }
  /\ awaiting = [o \in 1..MaxUploads |-> 0]
  /\ made = 0
  /\ last = NoAnswer
  /\ _dataset_store = << >>
  /\ _sessions = << >>
  /\ reply = NoReply

(***************************************************************************)
(* The server of backend/main.py under the requests of its clients.  A     *)
(* client asks about a session id an upload has returned, or about an id   *)
(* no upload ever returned (0).                                            *)
(***************************************************************************)
Next ==
  \/ \E file \in Files : Len(heap) < MaxUploads /\ upload_csv(file)
  \/ \E session_id \in 0..Len(heap) : query_data(session_id)
  \/ \E df \in 1..MaxUploads, raw \in ModelOutcomes : query_data_resumed(df, raw)
  \/ \E session_id \in 0..Len(heap) : delete_session(session_id)
  \/ respond

Spec == Init /\ [][Next]_vars

(***************************************************************************)
(* The same server over the life of its sessions: up to MaxStoreUploads    *)
(* uploads of one file, time passing, and the requests about the first     *)
(* session, at most MaxStoreQueries of them queries, which the model       *)
(* answers with one document.  Time passes while the store is nearly empty *)
(* (at most MaxUploads sessions created) or full.                          *)
(***************************************************************************)
StoreFiles == {File(sales_csv, "small", TRUE, <<5>>)}

StoreOutcomes == {Completion(FALSE, Object(AllKeys, Texts.len, "none"))}

Tracked == 0..1

NextStore ==
  \/ \E file \in StoreFiles : Len(heap) < MaxStoreUploads /\ upload_csv(file)
  \/ \E session_id \in Tracked :
       session_id <= Len(heap) /\ made < MaxStoreQueries /\ query_data(session_id)
  \/ \E df \in Tracked \ {0}, raw \in StoreOutcomes : query_data_resumed(df, raw)
  \/ \E session_id \in Tracked : session_id <= Len(heap) /\ delete_session(session_id)
  \/ \E elapsed \in Ticks :
       (Len(heap) <= MaxUploads \/ Len(sessions) = maxsize) /\ tick(elapsed)
  \/ respond

SpecStore == Init /\ [][NextStore]_vars

NextApp ==
  \/ \E file \in Files : api_upload_csv(file)
  \/ \E session_id \in 0..MaxChats, dataset_id \in 0..MaxUploads,
        user_message \in BOOLEAN, raw \in AppOutcomes, answers \in BOOLEAN :
          chat(session_id, dataset_id, user_message, raw, answers)
  \/ \E session_id \in 1..MaxChats : clear_session(session_id)
  \/ respond

SpecApp == Init /\ [][NextApp]_vars


(***************************************************************************)
(* Vocabulary of the properties: the nodes of a tree, the calls a /query   *)
(* made, and what the model was asked to evaluate.                         *)
(***************************************************************************)
RECURSIVE Nodes(_)
Nodes(node) == {node} \cup UNION {Nodes(node.kids[i]) : i \in 1..Len(node.kids)}

Calls(op) == {i \in 1..Len(last.events) : last.events[i].op = op}

Asked == last.raw.doc

AskedCode(text) ==
  /\ last.route = "/query"
  /\ last.status \in {200, 500}
  /\ ~last.raw.raised
  /\ Asked.json = "object"
  /\ "pandas_code" \in Asked.keys
  /\ Asked.pandas_code = text

Accepted(text) ==
  \E i \in Calls("_validate_ast returned") : last.events[i].code = text

Rejected(text) ==
  \E i \in Calls("_validate_ast raised") : last.events[i].code = text

(***************************************************************************)
(* C1.  In a query the expression is evaluated, and the dataset copied,    *)
(* only after _validate_ast has returned on the same text without raising; *)
(* when _validate_ast raises, the query makes no copy and no evaluation.   *)
(***************************************************************************)
C1_EvaluatedOnlyAfterValidation ==
  /\ \A i \in Calls("eval") \cup Calls("df.copy") :
       \E j \in Calls("_validate_ast returned") :
         j < i /\ last.events[j].code = last.events[i].code
  /\ Calls("_validate_ast raised") # { } =>
       Calls("eval") \cup Calls("df.copy") = { }

C1_Witness ==
  /\ Calls("eval") # { }
  /\ AskedCode(Texts.pop)

(***************************************************************************)
(* C2.  Wherever the repository evaluates an expression of the model, in   *)
(* QueryAgent._execute and in _safe_eval_pandas of backend/app, the        *)
(* structural validator has run on the text and accepted it before the     *)
(* evaluation.  The code does not keep this: _safe_eval_pandas evaluates   *)
(* a text that only the scan for blocked substrings has seen.              *)
(***************************************************************************)
C2_EveryPathValidatesStructurally ==
  /\ \A i \in Calls("eval") :
       \E j \in 1..(i - 1) : last.events[j] = Event("_validate_ast returned",
                                                   last.events[i].code)
  /\ \A i \in 1..Len(reply.result.events) :
       reply.result.events[i].op = "eval" =>
         \E j \in 1..(i - 1) :
           reply.result.events[j] = Event("_validate_ast returned",
                                          reply.result.events[i].code)

(***************************************************************************)
(* C3.  A text whose tree holds, at any depth, an attribute access with a  *)
(* forbidden attribute name is never accepted by _validate_ast, whatever   *)
(* the receiver is.                                                        *)
(***************************************************************************)
HasForbiddenAttribute(text) ==
  \E n \in Nodes(ast_parse(text)) : n.kind = "Attribute" /\ n.name \in _FORBIDDEN_ATTRS

C3_ForbiddenAttributeRejectedAtAnyDepth ==
  \A i \in Calls("_validate_ast returned") : ~HasForbiddenAttribute(last.events[i].code)

C3_Witness ==
  /\ Rejected(Texts.binclass)
  /\ HasForbiddenAttribute(Texts.binclass)
  /\ HasForbiddenAttribute(Texts.kwclass) /\ _validate_ast(Texts.kwclass) # NoExc
  /\ HasForbiddenAttribute(Texts.argclass) /\ _validate_ast(Texts.argclass) # NoExc
  /\ HasForbiddenAttribute(Texts.subclass) /\ _validate_ast(Texts.subclass) # NoExc
  /\ HasForbiddenAttribute(Texts.compclass) /\ _validate_ast(Texts.compclass) # NoExc

(***************************************************************************)
(* C4.  Evaluating an accepted expression never refers to the builtin      *)
(* registry of the host runtime nor to its code-execution, file-system,    *)
(* process or introspection operations.  The code does not keep this:      *)
(* pd.__dict__['__builtins__'] is accepted and is the registry.            *)
(***************************************************************************)
C4_NoHostCapabilityReached ==
  last.touched = { }

(***************************************************************************)
(* C5.  Every node of the tree of an accepted text has an allow-listed     *)
(* kind, and every bare name in it an allow-listed identifier.             *)
(***************************************************************************)
C5_AcceptedTreeWithinAllowLists ==
  \A i \in Calls("_validate_ast returned") :
    \A n \in Nodes(ast_parse(last.events[i].code)) :
      /\ n.kind \in _ALLOWED_NODE_TYPES
      /\ n.kind = "Name" => n.name \in _ALLOWED_NAMES

C5_Witness ==
  /\ Accepted(Texts.drop)
  /\ Cardinality(Nodes(ast_parse(Texts.drop))) > 8

(***************************************************************************)
(* C6.  After _execute the stored dataset of every session is the object   *)
(* it was and has the content it had.  The code does not keep this for an  *)
(* accepted expression that reaches main.sessions through the registry     *)
(* (C4).                                                                   *)
(***************************************************************************)
C6_StoredDatasetUntouched ==
  \A i \in 1..Len(sessions) :
    /\ sessions[i].df = sessions[i].id
    /\ heap[sessions[i].df] = ingested[sessions[i].df]

(***************************************************************************)
(* C7.  Whatever other queries ran before or in between, a query's result  *)
(* is the one it gives alone on the dataset as ingested.  The code does    *)
(* not keep this: a query after the one of C6 sees the changed dataset.    *)
(***************************************************************************)
C7_ResultAsIfAlone ==
  last.route = "/query" /\ last.status \in {200, 500} =>
    last.result = query(last.raw, last.df, ingested,
                        [i \in 1..Len(sessions) |-> sessions[i].df]).result

(***************************************************************************)
(* C8.  Whatever the model call gives, /query ends with a structured       *)
(* response and no exception leaves the handler.  The code does not keep   *)
(* this: the model call is outside every try.                              *)
(***************************************************************************)
C8_NoExceptionLeavesTheHandler ==
  last.route = "/query" => last.status # 500

(***************************************************************************)
(* C9.  The stages of a query follow only the transitions of the state     *)
(* machine, the query ends in exactly one terminal stage, and the model    *)
(* call, the validation and the evaluation each happen at most once.  The  *)
(* code does not keep this: a query whose model call raises ends in        *)
(* ModelCalled (C8).                                                       *)
(***************************************************************************)
Transitions ==
  { <<"Received", "ModelCalled">>, <<"ModelCalled", "ParseFailed">>,
    <<"ModelCalled", "Validated">>, <<"ModelCalled", "Succeeded">>,
    <<"Validated", "Rejected">>, <<"Validated", "Executed">>,
    <<"Executed", "ExecutionFailed">>, <<"Executed", "Succeeded">> }

Terminal == {"ParseFailed", "Rejected", "ExecutionFailed", "Succeeded"}

C9_StagesFollowTheStateMachine ==
  last.route = "/query" /\ last.stages # << >> =>
    /\ last.stages[1] = "Received"
    /\ \A i \in 1..(Len(last.stages) - 1) :
         <<last.stages[i], last.stages[i + 1]>> \in Transitions
    /\ last.stages[Len(last.stages)] \in Terminal
    /\ Cardinality({i \in 1..Len(last.stages) : last.stages[i] \in Terminal}) = 1
    /\ Cardinality(Calls("_call_llm")) = 1
    /\ Cardinality(Calls("_validate_ast returned") \cup Calls("_validate_ast raised")) <= 1
    /\ Cardinality(Calls("eval")) <= 1

(***************************************************************************)
(* C10.  When the expression field of the model response is the text None, *)
(* the query goes from ModelCalled straight to Succeeded: error and        *)
(* result_data are null, answer_summary is the one the model gave, and     *)
(* there is no validation, no copy and no evaluation.                      *)
(***************************************************************************)
C10_SentinelShortCircuits ==
  AskedCode(Texts.none) =>
    /\ last.status = 200
    /\ last.stages = <<"Received", "ModelCalled", "Succeeded">>
    /\ last.result.error = Null
    /\ last.result.result_data = NoneV
    /\ "answer_summary" \in Asked.keys => last.result.answer_summary = Asked.answer_summary
    /\ last.events = <<Event("_call_llm", << >>), Event("_parse returned", << >>)>>

C10_Witness ==
  /\ AskedCode(Texts.none)
  /\ "answer_summary" \in Asked.keys
  /\ last.result.answer_summary = Str(<<"The answer, in one sentence.">>)

(***************************************************************************)
(* C11.  When the model output is not parseable JSON the query ends in     *)
(* ParseFailed: nothing of the output is validated, copied for or          *)
(* evaluated, and the response carries a non-null error, a null result and *)
(* the could-not-answer message.  The older pipeline, answer_question,     *)
(* given such an output on any stored dataset, likewise scans and          *)
(* evaluates nothing and replies with its could-not-understand message, no *)
(* table, no chart and no code.                                            *)
(***************************************************************************)
NotJSON(raw) == ~raw.raised /\ raw.doc.json = "invalid"

NotUnderstood(result) ==
  /\ \A i \in 1..Len(result.events) :
       result.events[i].op \in {"chat.completions.create", "json.loads raised"}
  /\ result.answer = "I had trouble understanding that question."
  /\ result.table_data = NoTable
  /\ result.chart = ""
  /\ result.raw_code = Null

C11_InChat ==
  (reply.route = "/api/chat" /\ reply.status = 200 /\ reply.dataset_id # 0
     /\ ~reply.raw.raised /\ (reply.raw.fenced \/ reply.raw.doc.json = "invalid")) =>
    NotUnderstood(reply.result)

(***************************************************************************)
(* C12.  A model output that parses as JSON but is not the expected        *)
(* object (not an object at all, or an object without pandas_code,         *)
(* result_type or answer_summary) is treated as a parse failure: the query *)
(* ends in ParseFailed with the parse-error response, as for text that is  *)
(* not JSON, and never in Succeeded.                                       *)
(***************************************************************************)
Deviates(doc) ==
  \/ doc.json # "object"
  \/ ~({"pandas_code", "result_type", "answer_summary"} \subseteq doc.keys)

C12_DeviationIsParseFailure ==
  (last.route = "/query" /\ last.status \in {200, 500} /\ ~last.raw.raised
     /\ Deviates(last.raw.doc)) =>
    /\ last.status = 200
    /\ last.stages = <<"Received", "ModelCalled", "ParseFailed">>
    /\ last.result.error # Null
    /\ last.result.error.parts[1] = "LLM parse error: "

(***************************************************************************)
(* C13.  When the validator rejects the expression, or its evaluation or   *)
(* the normalisation of its result raises, query returns the error         *)
(* payload: error is "Execution error: " followed by the rejection reason  *)
(* or the exception message, pandas_code is the expression as the model    *)
(* gave it, result_data is null, result_type "scalar" and suggested_chart  *)
(* "none".  Conversely a response has a null error only when the query     *)
(* ended in Succeeded.                                                     *)
(***************************************************************************)
Final == last.stages[Len(last.stages)]

C13_ErrorPayload ==
  (last.route = "/query" /\ last.status \in {200, 500}) =>
    /\ Calls("_validate_ast raised") # { } => last.status = 200 /\ Final = "Rejected"
    /\ ("Executed" \in {last.stages[i] : i \in 1..Len(last.stages)}
          /\ Final # "Succeeded") => last.status = 200 /\ Final = "ExecutionFailed"
    /\ Final \in {"Rejected", "ExecutionFailed"} =>
         /\ last.result.error # Null
         /\ last.result.error.parts[1] = "Execution error: "
         /\ Len(last.result.error.parts) > 1
         /\ Final = "Rejected" =>
              last.result.error.parts =
                <<"Execution error: ">> \o _validate_ast(Asked.pandas_code).msg
         /\ last.result.pandas_code = Code(Asked.pandas_code)
         /\ last.result.result_data = NoneV
         /\ last.result.result_type = "scalar"
         /\ last.result.suggested_chart = "none"
    /\ (last.status = 200 /\ last.result.error = Null) => Final = "Succeeded"

C13_Witness ==
  /\ AskedCode(Texts.nope)
  /\ Final = "ExecutionFailed"
  /\ last.result.pandas_code = Code(Texts.nope)
  /\ last.result.error.parts[1] = "Execution error: "

C13_WitnessRejected ==
  /\ AskedCode(Texts.dfclass)
  /\ Final = "Rejected"
  /\ last.result.error.parts[2] = "Forbidden attribute '."

(***************************************************************************)
(* C14.  Every statement-level text (an import, an assignment, a function  *)
(* or class definition, raise, assert, with, several statements) is        *)
(* rejected by _validate_ast and never evaluated, with the reason of a     *)
(* text that does not parse as one expression, "Invalid Python             *)
(* expression: " and the parser's message; every variable-capture          *)
(* expression (the walrus assignment, a lambda) is rejected with the       *)
(* reason "Disallowed AST node: " and the node's kind.                     *)
(***************************************************************************)
StatementTexts ==
  { Texts.importos, Texts.assign, Texts.funcdef, Texts.classdef,
    Texts.raisestmt, Texts.assertstmt, Texts.withstmt, Texts.multi }

CaptureTexts == { Texts.walrus, Texts.lambda }

RejectedFor(texts, reason) ==
  \A text \in texts :
    AskedCode(text) =>
      /\ Rejected(text)
      /\ Calls("eval") = { }
      /\ last.status = 200
      /\ last.result.error.parts[1] = "Execution error: "
      /\ last.result.error.parts[2] = reason

C14_WitnessCapture ==
  /\ AskedCode(Texts.walrus)
  /\ Rejected(Texts.walrus)
  /\ last.result.error.parts[3] = "NamedExpr"

WithinAllowLists(text) ==
  LET tree == ast_parse(text)
  IN  /\ tree.kind # "SyntaxError"
      /\ \A n \in Nodes(tree) :
           /\ n.kind \in _ALLOWED_NODE_TYPES
           /\ n.kind = "Name" => n.name \in _ALLOWED_NAMES
           /\ n.kind = "Attribute" => n.name \notin _FORBIDDEN_ATTRS

SAFE ==
  { Texts.sum, Texts.safe2, Texts.safe3, Texts.len, Texts.safe5, Texts.safe6,
    Texts.safe7, Texts.safe8, Texts.safe9, Texts.safe10, Texts.safe11 }

Validated(text) == Accepted(text) \/ Rejected(text)

C15_WithinAllowListsIsAccepted ==
  /\ \A k \in DOMAIN Texts :
       Validated(Texts[k]) =>
         /\ WithinAllowLists(Texts[k]) => Accepted(Texts[k])
         /\ Texts[k] \in SAFE \cup {Texts.num} => Accepted(Texts[k])
  /\ \A text \in SAFE \cup {Texts.none, Texts.num} :
       AskedCode(text) =>
         /\ WithinAllowLists(text)
         /\ _validate_ast(text) = NoExc
         /\ Calls("_validate_ast raised") = { }

C15_Witness ==
  /\ AskedCode(Texts.safe11)
  /\ WithinAllowLists(Texts.safe11)
  /\ Accepted(Texts.safe11)
  /\ \E n \in Nodes(ast_parse(Texts.safe11)) : n.kind = "keyword"

(***************************************************************************)
(* C16.  A text that applies an arithmetic, comparison or boolean operator *)
(* of Python's expression grammar to operands the validator accepts is     *)
(* accepted: no operator node of these three families is rejected as a     *)
(* disallowed node.  The code does not keep this: the allow-list has       *)
(* neither Is and IsNot nor MatMult (nor &, | and ~, the element-wise      *)
(* boolean operators of pandas).                                           *)
(***************************************************************************)
Arithmetic ==
  { "Add", "Sub", "Mult", "MatMult", "Div", "FloorDiv", "Mod", "Pow", "UAdd", "USub" }

Comparison == { "Eq", "NotEq", "Lt", "LtE", "Gt", "GtE", "Is", "IsNot", "In", "NotIn" }

Boolean == { "And", "Or", "Not" }

OperandsAcceptable(text) ==
  LET tree == ast_parse(text)
  IN  /\ tree.kind # "SyntaxError"
      /\ \A n \in Nodes(tree) :
           /\ n.kind \in _ALLOWED_NODE_TYPES \cup Arithmetic \cup Comparison \cup Boolean
           /\ n.kind = "Name" => n.name \in _ALLOWED_NAMES
           /\ n.kind = "Attribute" => n.name \notin _FORBIDDEN_ATTRS

C16_OperatorsAccepted ==
  \A k \in DOMAIN Texts :
    (Validated(Texts[k]) /\ OperandsAcceptable(Texts[k])) => Accepted(Texts[k])

(***************************************************************************)
(* C17.  The reserved-name allow-list, and the functions _execute places   *)
(* in the evaluator's namespace, hold only df, pd, np, True, False, None   *)
(* and pure built-in functions (len, min, max, sum, round, abs, sorted,    *)
(* range, enumerate, zip and the basic type constructors); none performs   *)
(* I/O, so that an accepted text using only df and these functions has no  *)
(* effect outside its evaluation.  The code does not keep this: both hold  *)
(* print.                                                                  *)
(***************************************************************************)
PureBuiltins ==
  { "len", "min", "max", "sum", "round", "abs", "sorted", "range", "enumerate",
    "zip", "list", "dict", "set", "tuple", "str", "int", "float", "bool" }

UsesOnlyReservedNames(text) ==
  \A n \in Nodes(ast_parse(text)) :
    /\ n.kind # "Attribute"
    /\ n.kind = "Name" => n.name \in {"df"} \cup safe_builtins

C17_OnlyPureBuiltins ==
  /\ \A i \in Calls("eval") :
       UsesOnlyReservedNames(last.events[i].code) => last.touched = { }
  /\ _ALLOWED_NAMES \subseteq {"df", "pd", "np", "True", "False", "None"} \cup PureBuiltins
  /\ safe_builtins \subseteq {"True", "False", "None"} \cup PureBuiltins

(***************************************************************************)
(* C18.  The bare names eval resolves in the namespace of _execute, that   *)
(* is df, pd, np and the keys of safe_builtins, are the names of           *)
(* _ALLOWED_NAMES: a name the validator accepts never fails to resolve,    *)
(* and a name outside the allow-list resolves to nothing.  The namespace   *)
(* is built anew for every evaluation, df a new copy of the stored         *)
(* dataset: an evaluation that changes its df (pop, drop in place) leaves  *)
(* nothing behind for the next evaluation, which sees the stored dataset.  *)
(***************************************************************************)
Resolvable(names) == names.entries \cup names.builtins

Unresolved(r) == r.exc.type = "NameError"

Stored(df) == [copy |-> heap[df], heap |-> heap, store |-> << >>, touched |-> { }]

Nowhere == [copy |-> Frame(<< >>, 0, << >>), heap |-> << >>, store |-> << >>, touched |-> { }]

Verdict(text) == _validate_ast(text)

NativeScalars == { "NoneType", "int", "float", "bool", "str" }

Rows(data) ==
  /\ data.t = "list"
  /\ \A i \in 1..Len(data.q) :
       /\ data.q[i].t = "dict"
       /\ \A c \in 1..Len(data.q[i].q) :
            /\ data.q[i].q[c].t = "item"
            /\ data.q[i].q[c].q[1].t \in NativeScalars
            /\ data.q[i].q[c].q[1].s # "nan"

C20_SerialiseDispatch ==
  (last.route = "/query" /\ Calls("eval") # { } /\ Final = "Succeeded") =>
    /\ last.result.result_type \in {"table", "scalar", "list"}
    /\ last.result.result_type = "table" => Rows(last.result.result_data)
    /\ last.result.result_type = "list" => last.result.result_data.t = "list"
    /\ last.result.result_type = "scalar" =>
         last.result.result_data.t \in NativeScalars
    /\ AskedCode(Texts.mean) =>
         /\ last.result.result_type = "scalar"
         /\ last.result.result_data.t = "float"
    /\ AskedCode(Texts.sum) =>
         /\ last.result.result_type = "scalar"
         /\ last.result.result_data.t = "int"
    /\ AskedCode(Texts.tolist) => last.result.result_type = "list"
    /\ AskedCode(Texts.head) => last.result.result_type = "table"
    /\ AskedCode(Texts.pop) =>
         /\ last.result.result_type = "table"
         /\ \A i \in 1..Len(last.result.result_data.q) :
              last.result.result_data.q[i].q[1] = Item("index", IntV(i - 1))

(***************************************************************************)
(* C21.  VizAgent.generate returns the no-chart config (show_chart false,  *)
(* chart_type "none", no data, no y_keys, x_key null) whenever the result  *)
(* kind is "scalar" or the payload is empty or not a list, whatever chart  *)
(* kind and columns the model suggested; so the response to a failed query *)
(* and to a sentinel query carries no chart.                               *)
(***************************************************************************)
NoChartConfig(chart) ==
  /\ chart.show_chart = FALSE
  /\ chart.chart_type = "none"
  /\ chart.data = << >>
  /\ chart.y_keys = << >>
  /\ chart.x_key = NoneV

Kinds == {"scalar", "table", "list", "series"}

Suggestions == SUPPORTED \cup {"none", "histogram"}

Columns == {NoneV, StrV("revenue"), StrV("price")}

NothingToChart(result_data, result_type) ==
  result_type = "scalar" \/ result_data.t # "list" \/ result_data.q = << >>

C21_NoChartForScalarOrEmpty ==
  /\ (last.route = "/query" /\ last.status = 200
        /\ NothingToChart(last.result.result_data, last.result.result_type)) =>
       NoChartConfig(last.chart)
  /\ (last.route = "/query" /\ last.status = 200
        /\ (last.result.error # Null \/ last.result.pandas_code.text = Sentinel)) =>
       NoChartConfig(last.chart)
  /\ \A result_type \in Kinds, suggested_chart \in Suggestions,
        chart_x_col \in Columns, chart_y_col \in Columns :
       NothingToChart(last.result.result_data, result_type) =>
         LET viz == generate(last.result.result_data, result_type, suggested_chart,
                             chart_x_col, chart_y_col, last.result.answer_summary)
         IN  viz.exc = NoExc /\ NoChartConfig(viz.chart)

C21_Witness ==
  /\ last.route = "/query"
  /\ last.status = 200
  /\ last.raw.doc.suggested_chart = "bar"
  /\ Final = "Succeeded"
  /\ last.result.result_type = "scalar"
  /\ last.result.result_data # NoneV
  /\ NoChartConfig(last.chart)

C21_WitnessEmpty ==
  /\ last.route = "/query"
  /\ last.status = 200
  /\ last.result.result_type # "scalar"
  /\ last.result.result_data.t = "list"
  /\ last.result.result_data.q = << >>
  /\ NoChartConfig(last.chart)

C21_WitnessChart ==
  /\ last.route = "/query"
  /\ last.status = 200
  /\ last.chart.show_chart

(***************************************************************************)
(* C22.  The rejection reason names the kind of the offending construct as *)
(* the table DANGEROUS pairs them: eval, exec, globals, locals and open    *)
(* called by bare name give "Disallowed call", also in                     *)
(* open('/etc/passwd').read(); __import__('os') gives "Forbidden           *)
(* attribute"; the chains through __class__, __bases__ and __subclasses__  *)
(* give "Forbidden attribute".  The code does not keep the pairs of        *)
(* open(...).read() and __import__(...).                                   *)
(***************************************************************************)
DisallowedCall == "Disallowed call '"

ForbiddenAttribute == "Forbidden attribute '."

C22_BareCalls ==
  RejectedFor({Texts.evalcall, Texts.execcall, Texts.globals, Texts.locals}, DisallowedCall)

C22_Chains ==
  RejectedFor({Texts.bases, Texts.dfclass}, ForbiddenAttribute)

C22_OpenRead == RejectedFor({Texts.openread}, DisallowedCall)

C22_DunderImport == RejectedFor({Texts.dunderimport}, ForbiddenAttribute)

C22_ReasonNamesTheConstruct ==
  /\ C22_BareCalls
  /\ C22_Chains
  /\ C22_OpenRead
  /\ C22_DunderImport

(***************************************************************************)
(* C27.  For every payload and kind that _serialise returns, the kind      *)
(* "list" with a non-empty list of scalars included, VizAgent.generate     *)
(* returns a chart config without raising, so a query whose expression was *)
(* evaluated and normalised is answered 200.  The code does not keep this: *)
(* generate asks the first element of a list payload for its keys.         *)
(***************************************************************************)
C27_GenerateNeverRaises ==
  (last.route = "/query" /\ last.stages # << >> /\ Final = "Succeeded") =>
    /\ last.status = 200
    /\ generate(last.result.result_data, last.result.result_type,
                last.result.suggested_chart, last.result.chart_x_col,
                last.result.chart_y_col, last.result.answer_summary).exc = NoExc

(***************************************************************************)
(* C29.  A list, set or dict comprehension is accepted only if every       *)
(* variable it binds is in the reserved-name allow-list: a binding target  *)
(* is a Name node like any other, so a comprehension binding a fresh       *)
(* identifier, [x for x in range(3)] for one, is rejected with the         *)
(* disallowed-name reason and never evaluated, while one whose targets and *)
(* other names are reserved names is accepted.                             *)
(***************************************************************************)
Comprehensions ==
  {k \in DOMAIN Texts :
     \E n \in Nodes(ast_parse(Texts[k])) : n.kind \in {"ListComp", "SetComp", "DictComp"}}

Bound(text) ==
  {n.name : n \in {m \in Nodes(ast_parse(text)) :
                     m.kind = "Name" /\ m.kids[1].kind \in {"Store", "Del"}}}

C29_ComprehensionBindsOnlyReservedNames ==
  \A k \in Comprehensions :
    /\ Accepted(Texts[k]) => Bound(Texts[k]) \subseteq _ALLOWED_NAMES
    /\ (AskedCode(Texts[k]) /\ ~(Bound(Texts[k]) \subseteq _ALLOWED_NAMES)) =>
         /\ Rejected(Texts[k])
         /\ Calls("eval") = { }
         /\ SubSeq(last.result.error.parts, 1, 2) = <<"Execution error: ", "Disallowed name '">>
         /\ last.result.error.parts[3] \notin _ALLOWED_NAMES
    /\ (AskedCode(Texts[k]) /\ WithinAllowLists(Texts[k])) =>
         /\ Accepted(Texts[k])
         /\ Calls("eval") # { }

C29_Witness ==
  /\ AskedCode(Texts.listcomp)
  /\ Rejected(Texts.listcomp)
  /\ Bound(Texts.listcomp) = {"x"}
  /\ last.result.error.parts[3] = "x"

C29_WitnessStoreOnly ==
  /\ AskedCode(Texts.storeonly)
  /\ Rejected(Texts.storeonly)
  /\ \A n \in Nodes(ast_parse(Texts.storeonly)) :
       (n.kind = "Name" /\ n.name = "x") => n.kids[1].kind = "Store"

C29_WitnessReserved ==
  /\ AskedCode(Texts.dictcompdf)
  /\ Accepted(Texts.dictcompdf)
  /\ Bound(Texts.dictcompdf) = {"df"}
  /\ Final = "Succeeded"

(***************************************************************************)
(* C23.  Once DELETE /session/{id} has returned, a /query that starts for  *)
(* that id is answered 404 "Session not found" and reaches no model call   *)
(* (no handler is suspended for it); ids are never issued twice.  A DELETE *)
(* of an id no upload returned, or of one already deleted, is answered 200 *)
(* and changes nothing.                                                    *)
(***************************************************************************)
QueryStarts == made' = made + 1

DeleteReturns == last = NoAnswer /\ last'.route = "/session"

C23_Step ==
  /\ QueryStarts =>
       /\ \A id \in deleted : awaiting'[id] = awaiting[id]
       /\ (last' # NoAnswer /\ last'.session_id \in deleted) =>
            /\ last'.status = 404
            /\ last'.detail = "Session not found. Upload a CSV first."
  /\ (DeleteReturns /\ last'.session_id \in deleted \cup {0}) =>
       /\ last'.status = 200
       /\ UNCHANGED <<heap, ingested, sessions, now, uploaded, deleted, awaiting, made>>
  /\ (last = NoAnswer /\ last'.route = "/upload" /\ last'.status = 200) =>
       /\ last'.session_id \notin deleted
       /\ \A i \in 1..Len(sessions) : sessions[i].id # last'.session_id
       /\ last'.session_id \notin 1..Len(heap)

C23_DeletedIsNotFound == [][C23_Step]_vars

C23_Witness ==
  /\ last.route = "/query"
  /\ last.status = 404
  /\ last.session_id \in deleted
  /\ now < uploaded[last.session_id] + ttl

C23_WitnessTwice ==
  /\ last.route = "/session"
  /\ last.session_id \in deleted
  /\ \A i \in 1..Len(sessions) : sessions[i].id # last.session_id
  /\ made > 0

(***************************************************************************)
(* C24.  Whatever uploads, queries and deletes are made and however the    *)
(* clock advances, the session store holds at most 50 sessions, and a      *)
(* lookup made more than 30 minutes after the upload that created a        *)
(* session does not return it.                                             *)
(***************************************************************************)
LookupReturns(o) == awaiting'[o] > awaiting[o]

C24_Step ==
  /\ Len(sessions') <= maxsize
  /\ \A o \in DOMAIN awaiting : LookupReturns(o) => now <= uploaded[o] + ttl

C24_StoreBoundedAndExpiring == [][C24_Step]_vars

C24_Witness ==
  /\ Len(heap) > maxsize
  /\ Len(sessions) = maxsize
  /\ \A i \in 1..Len(sessions) : sessions[i].id # 1

C24_WitnessExpired ==
  /\ last.route = "/query"
  /\ last.status = 404
  /\ last.session_id \in 1..Len(heap) \ deleted
  /\ now > uploaded[last.session_id] + ttl
  /\ Len(heap) <= maxsize

C24_WitnessLive ==
  /\ awaiting[1] > 0
  /\ now > 0

(***************************************************************************)
(* C25.  POST /upload answers 400 to a file whose name does not end in     *)
(* .csv (in any letter case) or is missing, 400 to an empty file, 413 to   *)
(* a file over 50 MB and 422 to content that cannot be parsed; in each of  *)
(* these cases no session and no dataset is made and the store, the clock  *)
(* and the counters are exactly as before.                                 *)
(***************************************************************************)
NotCsv ==
  { <<"n", "o", "t", "e", "s", ".", "t", "x", "t">>, <<"c", "s", "v">>, << >> }

Refused(status) ==
  /\ last'.route = "/upload"
  /\ last'.status = status
  /\ last'.session_id = 0
  /\ UNCHANGED <<heap, ingested, sessions, now, uploaded, deleted, awaiting, made>>
  /\ UNCHANGED appvars

Expected(file) ==
  IF file.filename \in NotCsv THEN Refused(400)
  ELSE IF file.size = "empty" THEN Refused(400)
  ELSE IF file.size = "large" THEN Refused(413)
  ELSE IF ~file.parses THEN Refused(422)
  ELSE /\ last'.status = 200
       /\ Len(heap') = Len(heap) + 1
       /\ TTLCache_contains(sessions', last'.session_id, now)

C25_Step == \A file \in Files : upload_csv(file) => Expected(file)

C25_UploadValidation == [][C25_Step]_vars

C25_Witness ==
  /\ last.route = "/upload"
  /\ last.status = 422
  /\ Len(sessions) > 0

C25_WitnessTooLarge == last.route = "/upload" /\ last.status = 413 /\ Len(sessions) > 0

C25_WitnessNotCsv ==
  /\ last.route = "/upload"
  /\ last.status = 400
  /\ last.detail = "Only CSV files are supported."
  /\ Len(sessions) > 0

C25_WitnessEmpty ==
  /\ last.route = "/upload"
  /\ last.status = 400
  /\ last.detail = "File is empty."
  /\ Len(sessions) > 0

(* The same for POST /api/upload, whose size limit is MAX_FILE_SIZE_MB.    *)
RefusedInApp(status) ==
  /\ reply'.route = "/api/upload"
  /\ reply'.status = status
  /\ UNCHANGED <<_dataset_store, _sessions>>
  /\ UNCHANGED mainvars

C25_StepInApp ==
  \A file \in Files : api_upload_csv(file) =>
    IF file.filename \in NotCsv THEN RefusedInApp(400)
    ELSE IF file.size \in {"medium", "large"} THEN RefusedInApp(413)
    ELSE IF file.size = "empty" THEN RefusedInApp(400)
    ELSE IF ~file.parses THEN RefusedInApp(422)
    ELSE reply'.status = 200 /\ Len(_dataset_store') = Len(_dataset_store) + 1

C25_InApp == [][C25_StepInApp]_vars

C25_WitnessInApp == reply.route = "/api/upload" /\ reply.status = 422 /\ Len(_dataset_store) > 0

(***************************************************************************)
(* C26.  The stored entry of a session (dataset and profile) is written    *)
(* once, by the upload that creates it and before the id is returned; a    *)
(* /query step writes nothing to the session store, so an entry that is    *)
(* stored before and after a step is the same entry with the same dataset  *)
(* content.  The code does not keep this for an accepted expression that   *)
(* reaches main.sessions through the registry (C4, C6).                    *)
(***************************************************************************)
Entries(cache) == {cache[i] : i \in 1..Len(cache)}

QueryStep == made' # made \/ awaiting' # awaiting

C26_Step ==
  /\ \A before \in Entries(sessions), after \in Entries(sessions') :
       before.id = after.id => after = before /\ heap'[after.df] = heap[before.df]
  /\ QueryStep => Entries(sessions') = Entries(sessions) /\ heap' = heap
  /\ (last = NoAnswer /\ last'.route = "/upload" /\ last'.status = 200) =>
       /\ \A before \in Entries(sessions) : before.id # last'.session_id
       /\ \E after \in Entries(sessions') :
            /\ after.id = last'.session_id
            /\ heap'[after.df] = ingested'[after.df]

C26_StoredEntryWrittenOnce == [][C26_Step]_vars

(* On the steps whose expression stays within the namespace it holds.      *)
C26_WithinNamespace == [][last'.touched = { } => C26_Step]_vars

C26_WitnessWithinNamespace ==
  /\ last.route = "/query"
  /\ last.status = 200
  /\ last.touched = { }
  /\ "eval" \in {last.events[i].op : i \in 1..Len(last.events)}

(***************************************************************************)
(* C28.  A /query response that carries a result computed from a session's *)
(* dataset is produced only while the session is neither deleted nor       *)
(* expired.  The code does not keep this: a handler suspended at the model *)
(* call holds the dataset it looked up and completes whatever happened to  *)
(* the session in between.                                                 *)
(***************************************************************************)
Computed == last.route = "/query" /\ last.status = 200 /\ Final = "Succeeded"

C28_NoResultAfterDeletionOrExpiry ==
  Computed =>
    /\ last.session_id \notin deleted
    /\ now < uploaded[last.session_id] + ttl

C28_NoResultAfterDeletion == Computed => last.session_id \notin deleted

C28_NoResultAfterExpiry == Computed => now < uploaded[last.session_id] + ttl

(***************************************************************************)
(* C30.  A /query for a session that an upload created is answered 404     *)
(* only if the session was deleted or its time-to-live has elapsed,        *)
(* whatever uploads were made in between.  The code does not keep this:    *)
(* the store holds maxsize entries and an upload into a full store evicts  *)
(* the least recently used live session.                                   *)
(***************************************************************************)
C30_QueryableUntilDeletedOrExpired ==
  (last.route = "/query" /\ last.status = 404 /\ last.session_id \in 1..Len(heap)) =>
    \/ last.session_id \in deleted
    \/ now >= uploaded[last.session_id] + ttl

====
